---- MODULE Spec2Model ----
(***************************************************************************)
(* Risk manager (modules/rms_module.py) and execution engine               *)
(* (modules/execution_module.py) of the trading system.                    *)
(*                                                                         *)
(* Money amounts are exact integers (rupees); the source uses floats.      *)
(* Fractions of the configuration (0.02, 0.05, 0.10) are kept in           *)
(* hundredths and every use divides by 100.                                *)
(***************************************************************************)
EXTENDS Integers, Sequences, FiniteSets, TLC

\* ------------------------------------------------------------------------
\* Bounds of the model
\* ------------------------------------------------------------------------
MaxTrades == 2      \* cap on Len(trade_history)
MaxOrders == 1      \* cap on broker-assigned order ids

\* ------------------------------------------------------------------------
\* Configuration (config/settings.py)
\* ------------------------------------------------------------------------
MAX_POSITIONS == 10
MAX_DAILY_LOSS == 50000
MAX_POSITION_SIZE == 100000
POSITION_SIZE_PERCENT == 2      \* 0.02, in hundredths
STOP_LOSS_PERCENT == 5          \* 0.05, in hundredths
TARGET_PROFIT_PERCENT == 10     \* 0.10, in hundredths
MAX_ORDER_RETRY == 3
TEST_QUANTITY == 1
LOT_SIZE == [k \in {"nifty", "banknifty"} |-> IF k = "nifty" THEN 75 ELSE 35]

\* ------------------------------------------------------------------------
\* Input domains
\* ------------------------------------------------------------------------
Symbols == {"NIFTY", "TEST"}
Sides == {"long", "short"}
\* arguments of the direct open_position calls; stop_loss <<>> is None
OpenArgs ==
    {[side |-> sd, quantity |-> 10000, entry_price |-> 100, stop_loss |-> <<>>] :
        sd \in Sides}
    \cup
    {[side |-> "long", quantity |-> 10, entry_price |-> 100, stop_loss |-> <<100>>]}
UpdatePrices == {95, 100, 120}
ExitInputs == {<<>>, <<120>>}            \* <<>> is None
EntrySignalTypes == {"BUY", "SELL"}
ExitSignalTypes == {"EXIT_LONG", "EXIT_SHORT"}
\* signals; confidence in hundredths, stop_loss is metadata['stop_loss'] or <<>>
Sig(s, t, p, c, sl) ==
    [symbol |-> s, signal_type |-> t, price |-> p, confidence |-> c, stop_loss |-> sl]
Signals ==
    {Sig("NIFTY", "BUY", 100, 100, <<>>),       \* long, stop 95
     Sig("NIFTY", "SELL", 100, 100, <<120>>),   \* short, stop 120
     Sig("NIFTY", "SELL", 100, 100, <<>>),      \* short with the default stop 95
     Sig("TEST", "BUY", 100, 100, <<>>),        \* no strategy registered for TEST
     Sig("NIFTY", "EXIT_LONG", 120, 100, <<>>),
     Sig("NIFTY", "EXIT_SHORT", 120, 100, <<>>),
     Sig("NIFTY", "HOLD", 100, 100, <<>>),
     Sig("NIFTY", "BUY", 100, 40, <<>>)}        \* low confidence
TradingModes == {"live", "paper", "test"}

\* str.upper() on the symbols of the model
Upper(s) ==
    IF s = "nifty" THEN "NIFTY"
    ELSE IF s = "banknifty" THEN "BANKNIFTY"
    ELSE s

\* int(a / b) for b > 0: Python's int() truncates toward zero
Trunc(a, b) == IF a >= 0 THEN a \div b ELSE -((-a) \div b)

Max(a, b) == IF a >= b THEN a ELSE b
Min(a, b) == IF a <= b THEN a ELSE b

VARIABLES
    positions,              \* RiskManager.positions: set of Position, keyed by symbol
    portfolio_value,
    daily_start_value,
    daily_pnl,
    peak_portfolio_value,
    max_drawdown,           \* in whole percent, rounded down: floor(100 * drawdown)
    trade_history,
    daily_loss_limit_hit,
    portfolio_stop_active,
    trading_mode,           \* config.TRADING_MODE
    current_position,       \* strategy_manager.strategies[s].current_position
    pending_orders,         \* ExecutionEngine.pending_orders: set of Order, keyed by order_id
    completed_orders,
    is_monitoring,
    broker_book,            \* the broker's order book: order id -> status
    pc,                     \* main thread: "idle", or inside _place_order ("entry" / "exit")
    cur_sig,                \* the signal process_signal is (or was last) working on
    cur_qty,                \* quantity handed to _place_order (0 outside it)
    attempt,                \* broker place_order calls made so far by _place_order
    mon_pc,                 \* monitor thread: "none", "sleep", "scan"
    scan_size,              \* len(pending_orders) when the monitor's for loop began
    scan_done,              \* order ids the for loop has already yielded
    orders_to_remove,
    scan_failed,            \* order ids whose check in this iteration got no order
                            \* book or raised
    entry_orders,           \* ids of the orders placed by _execute_entry_signal
    sig_pre,                \* when cur_sig arrived: portfolio_value, and whether
                            \* its symbol had a position
    lastOp,                 \* the call that made the last step, with its arguments
                            \* and what the claims need of the state it started in
    ret,                    \* its return value
    files,                  \* data/historical: interval -> rows of the CSV file of
                            \* one symbol; an interval outside DOMAIN has no file
    writer,                 \* the to_csv call in progress, if any
    clock,                  \* datetime.now(), in minutes
    swing_levels,           \* TradingStrategy.swing_levels
    live_file,              \* live_feed_data.json: age of its mtime and its content
    live_data,              \* LiveDataFeed.live_data, the last content parsed
    broker_orders,          \* orders the strategy handed to SMART_API_OBJ.placeOrder
    strategy_positions,     \* TradingStrategy.positions
    latest_data,            \* WebSocketFeed.latest_data
    feed_file               \* data/live/live_feed_data.json: <<>> while it does not
                            \* exist, else <<the JSON value it holds>>

rmVars == <<positions, portfolio_value, daily_start_value, daily_pnl,
            peak_portfolio_value, max_drawdown, trade_history,
            daily_loss_limit_hit, portfolio_stop_active>>

\* ------------------------------------------------------------------------
\* The positions dict
\* ------------------------------------------------------------------------
Keys(d) == {p.symbol : p \in d}
Has(d, s) == s \in Keys(d)
Get(d, s) == CHOOSE p \in d : p.symbol = s
DictSet(d, p) == {q \in d : q.symbol # p.symbol} \cup {p}
DictDel(d, s) == {q \in d : q.symbol # s}

\* ------------------------------------------------------------------------
\* RiskManager state as a record, so that methods compose
\* ------------------------------------------------------------------------
RM == [positions |-> positions,
       portfolio_value |-> portfolio_value,
       daily_start_value |-> daily_start_value,
       daily_pnl |-> daily_pnl,
       peak_portfolio_value |-> peak_portfolio_value,
       max_drawdown |-> max_drawdown,
       trade_history |-> trade_history,
       daily_loss_limit_hit |-> daily_loss_limit_hit,
       portfolio_stop_active |-> portfolio_stop_active]

SetRM(r) ==
    /\ positions' = r.positions
    /\ portfolio_value' = r.portfolio_value
    /\ daily_start_value' = r.daily_start_value
    /\ daily_pnl' = r.daily_pnl
    /\ peak_portfolio_value' = r.peak_portfolio_value
    /\ max_drawdown' = r.max_drawdown
    /\ trade_history' = r.trade_history
    /\ daily_loss_limit_hit' = r.daily_loss_limit_hit
    /\ portfolio_stop_active' = r.portfolio_stop_active

\* Position.unrealized_pnl
unrealized_pnl(p) ==
    IF p.side = "long" THEN (p.current_price - p.entry_price) * p.quantity
    ELSE (p.entry_price - p.current_price) * p.quantity

\* calculate_position_size refusing only above max_positions (> for >=)
calculate_position_size_above_max(r, symbol, entry_price, stop_loss, side) ==
    IF Cardinality(r.positions) > MAX_POSITIONS THEN 0
    ELSE IF r.daily_loss_limit_hit THEN 0
    ELSE LET risk_amount_per_unit ==
                 IF side = "long" THEN entry_price - stop_loss
                 ELSE stop_loss - entry_price
         IN  IF risk_amount_per_unit <= 0 THEN 0
             ELSE IF entry_price = 0 THEN 0
             ELSE Max(Min(Trunc(r.portfolio_value * POSITION_SIZE_PERCENT,
                                100 * risk_amount_per_unit),
                          Trunc(MAX_POSITION_SIZE, entry_price)), 1)

\* calculate_position_size without the max_position_size clamp
calculate_position_size_unclamped(r, symbol, entry_price, stop_loss, side) ==
    IF Cardinality(r.positions) >= MAX_POSITIONS THEN 0
    ELSE IF r.daily_loss_limit_hit THEN 0
    ELSE LET risk_amount_per_unit ==
                 IF side = "long" THEN entry_price - stop_loss
                 ELSE stop_loss - entry_price
         IN  IF risk_amount_per_unit <= 0 THEN 0
             ELSE IF entry_price = 0 THEN 0
             ELSE Max(Trunc(r.portfolio_value * POSITION_SIZE_PERCENT,
                            100 * risk_amount_per_unit), 1)

\* calculate_position_size without the max_positions check
calculate_position_size_unlimited(r, symbol, entry_price, stop_loss, side) ==
    IF r.daily_loss_limit_hit THEN 0
    ELSE LET risk_amount_per_unit ==
                 IF side = "long" THEN entry_price - stop_loss
                 ELSE stop_loss - entry_price
         IN  IF risk_amount_per_unit <= 0 THEN 0
             ELSE IF entry_price = 0 THEN 0
             ELSE Max(Min(Trunc(r.portfolio_value * POSITION_SIZE_PERCENT,
                                100 * risk_amount_per_unit),
                          Trunc(MAX_POSITION_SIZE, entry_price)), 1)

\* RiskManager.calculate_position_size
calculate_position_size(r, symbol, entry_price, stop_loss, side) ==
    IF Cardinality(r.positions) >= MAX_POSITIONS THEN 0
    ELSE IF r.daily_loss_limit_hit THEN 0
    ELSE LET risk_amount_per_unit ==
                 IF side = "long" THEN entry_price - stop_loss
                 ELSE stop_loss - entry_price
         IN  IF risk_amount_per_unit <= 0 THEN 0
             ELSE IF entry_price = 0 THEN 0      \* ZeroDivisionError, caught
             ELSE
             LET q0 == Trunc(r.portfolio_value * POSITION_SIZE_PERCENT,
                             100 * risk_amount_per_unit)
                 max_quantity_by_value == Trunc(MAX_POSITION_SIZE, entry_price)
                 q1 == Min(q0, max_quantity_by_value)
                 q2 == IF Upper(symbol) \in DOMAIN LOT_SIZE
                       THEN (q1 \div LOT_SIZE[Upper(symbol)]) * LOT_SIZE[Upper(symbol)]
                       ELSE q1
                 q3 == Max(q2, 1)
             IN  IF q3 * entry_price > MAX_POSITION_SIZE
                 THEN Max(Trunc(MAX_POSITION_SIZE, entry_price), 1)
                 ELSE q3

\* RiskManager.close_position when the symbol has a position
close_existing(r, symbol, exit_price) ==
    LET position == Get(r.positions, symbol)
        exit == IF exit_price = <<>> THEN position.current_price ELSE exit_price[1]
        pnl == IF exit = position.current_price THEN unrealized_pnl(position)
               ELSE IF position.side = "long"
                    THEN (exit - position.entry_price) * position.quantity
                    ELSE (position.entry_price - exit) * position.quantity
        trade_record == [symbol |-> symbol, side |-> position.side,
                         quantity |-> position.quantity,
                         entry_price |-> position.entry_price,
                         exit_price |-> exit, pnl |-> pnl]
    IN  [rm |-> [r EXCEPT
                   !.portfolio_value = @ + (position.quantity * exit) + pnl,
                   !.trade_history = Append(@, trade_record),
                   !.daily_pnl = @ + pnl,
                   !.positions = DictDel(@, symbol)],
         ret |-> TRUE]

\* close_position reporting success when there is nothing to close
close_position_missing_ok(r, symbol, exit_price) ==
    IF ~Has(r.positions, symbol) THEN [rm |-> r, ret |-> TRUE]
    ELSE close_existing(r, symbol, exit_price)

\* RiskManager.close_position; exit_price is <<>> (None) or <<price>>
close_position(r, symbol, exit_price) ==
    IF ~Has(r.positions, symbol) THEN [rm |-> r, ret |-> FALSE]
    ELSE close_existing(r, symbol, exit_price)

\* RiskManager.open_position from "Set stop loss if not provided" on
open_new(r, symbol, side, quantity, entry_price, stop_loss) ==
    LET stop == IF stop_loss = <<>>
                THEN IF side = "long"
                     THEN (entry_price * (100 - STOP_LOSS_PERCENT)) \div 100
                     ELSE (entry_price * (100 + STOP_LOSS_PERCENT)) \div 100
                ELSE stop_loss[1]
        risk_amount == IF entry_price >= stop THEN entry_price - stop
                       ELSE stop - entry_price
        take_profit ==
            IF side = "long"
            THEN entry_price + (risk_amount * TARGET_PROFIT_PERCENT) \div STOP_LOSS_PERCENT
            ELSE entry_price - (risk_amount * TARGET_PROFIT_PERCENT) \div STOP_LOSS_PERCENT
        position == [symbol |-> symbol, side |-> side, quantity |-> quantity,
                     entry_price |-> entry_price, current_price |-> entry_price,
                     stop_loss |-> stop, take_profit |-> take_profit]
    IN  [rm |-> [r EXCEPT
                   !.positions = DictSet(@, position),
                   !.portfolio_value = @ - quantity * entry_price],
         ret |-> TRUE]

\* open_position overwriting an existing position without closing it
open_position_overwrite(r, symbol, side, quantity, entry_price, stop_loss) ==
    IF quantity <= 0 THEN [rm |-> r, ret |-> FALSE]
    ELSE open_new(r, symbol, side, quantity, entry_price, stop_loss)

\* RiskManager.open_position; stop_loss is <<>> (None) or <<price>>
open_position(r, symbol, side, quantity, entry_price, stop_loss) ==
    IF quantity <= 0 THEN [rm |-> r, ret |-> FALSE]
    ELSE open_new(IF Has(r.positions, symbol)
                  THEN close_position(r, symbol, <<>>).rm ELSE r,
                  symbol, side, quantity, entry_price, stop_loss)

\* RiskManager._check_stop_loss: TRUE when the stop is hit (the position is then closed)
stop_hit(p) ==
    /\ p.stop_loss # 0
    /\ \/ p.side = "long" /\ p.current_price <= p.stop_loss
       \/ p.side = "short" /\ p.current_price >= p.stop_loss

\* RiskManager._check_take_profit
profit_hit(p) ==
    /\ p.take_profit # 0
    /\ \/ p.side = "long" /\ p.current_price >= p.take_profit
       \/ p.side = "short" /\ p.current_price <= p.take_profit

\* the loop body without the short circuit: after the stop-loss close the
\* take-profit check closes the same Position object once more
update_one_no_continue(r, symbol, price) ==
    IF ~Has(r.positions, symbol) THEN r
    ELSE
    LET position == [Get(r.positions, symbol) EXCEPT !.current_price = price]
        r1 == [r EXCEPT !.positions = DictSet(@, position)]
        r2 == IF stop_hit(position)
              THEN close_position(r1, symbol, <<position.stop_loss>>).rm
              ELSE r1
    IN  IF profit_hit(position)
        THEN close_position([r2 EXCEPT !.positions = DictSet(@, position)],
                            symbol, <<position.take_profit>>).rm
        ELSE r2

\* body of the loop of update_positions for one (symbol, price) item
update_one(r, symbol, price) ==
    IF ~Has(r.positions, symbol) THEN r
    ELSE
    LET position == [Get(r.positions, symbol) EXCEPT !.current_price = price]
        r1 == [r EXCEPT !.positions = DictSet(@, position)]
    IN  IF stop_hit(position)
        THEN close_position(r1, symbol, <<position.stop_loss>>).rm
        ELSE IF profit_hit(position)
        THEN close_position(r1, symbol, <<position.take_profit>>).rm
        ELSE r1

\* sum of quantity * current_price over a set of positions
RECURSIVE PositionsValue(_)
PositionsValue(ps) ==
    IF ps = {} THEN 0
    ELSE LET p == CHOOSE x \in ps : TRUE
         IN  p.quantity * p.current_price + PositionsValue(ps \ {p})

\* RiskManager._update_risk_metrics.  The drawdown fraction is only ever
\* compared (max, >= 0.20), so its floor in whole percent decides the same.
update_risk_metrics(r) ==
    LET current_value == r.portfolio_value + PositionsValue(r.positions)
    IN  IF current_value > r.peak_portfolio_value
        THEN [r EXCEPT !.peak_portfolio_value = current_value]
        ELSE IF r.peak_portfolio_value = 0 THEN r    \* ZeroDivisionError, caught
        ELSE [r EXCEPT !.max_drawdown =
                 Max(@, ((r.peak_portfolio_value - current_value) * 100)
                            \div r.peak_portfolio_value)]

\* RiskManager._close_all_positions
RECURSIVE close_all_positions(_)
close_all_positions(r) ==
    IF r.positions = {} THEN r
    ELSE LET p == CHOOSE x \in r.positions : TRUE
         IN  close_all_positions(close_position(r, p.symbol, <<>>).rm)

\* _check_portfolio_limits with a strict comparison for the daily loss
check_portfolio_limits_strict(r) ==
    LET r1 == IF ~r.daily_loss_limit_hit /\ r.daily_pnl < -MAX_DAILY_LOSS
              THEN close_all_positions([r EXCEPT !.daily_loss_limit_hit = TRUE])
              ELSE r
    IN  IF r1.max_drawdown >= 20 /\ ~r1.portfolio_stop_active
        THEN close_all_positions([r1 EXCEPT !.portfolio_stop_active = TRUE])
        ELSE r1

\* _check_portfolio_limits recomputing the daily-loss flag on every call
check_portfolio_limits_unlatched(r) ==
    LET r1 == IF r.daily_pnl <= -MAX_DAILY_LOSS
              THEN IF r.daily_loss_limit_hit THEN r
                   ELSE close_all_positions([r EXCEPT !.daily_loss_limit_hit = TRUE])
              ELSE [r EXCEPT !.daily_loss_limit_hit = FALSE]
    IN  IF r1.max_drawdown >= 20 /\ ~r1.portfolio_stop_active
        THEN close_all_positions([r1 EXCEPT !.portfolio_stop_active = TRUE])
        ELSE r1

\* RiskManager._check_portfolio_limits
check_portfolio_limits(r) ==
    LET r1 == IF ~r.daily_loss_limit_hit /\ r.daily_pnl <= -MAX_DAILY_LOSS
              THEN close_all_positions([r EXCEPT !.daily_loss_limit_hit = TRUE])
              ELSE r
    IN  IF r1.max_drawdown >= 20 /\ ~r1.portfolio_stop_active
        THEN close_all_positions([r1 EXCEPT !.portfolio_stop_active = TRUE])
        ELSE r1

\* the loop of update_positions over the items of price_updates (a function
\* from a set of symbols to prices)
RECURSIVE update_loop(_, _, _)
update_loop(r, price_updates, todo) ==
    IF todo = {} THEN r
    ELSE LET s == CHOOSE x \in todo : TRUE
         IN  update_loop(update_one(r, s, price_updates[s]), price_updates, todo \ {s})

\* RiskManager.update_positions
update_positions(r, price_updates) ==
    check_portfolio_limits(
        update_risk_metrics(update_loop(r, price_updates, DOMAIN price_updates)))

\* RiskManager.reset_daily_stats
reset_daily_stats(r) ==
    [r EXCEPT !.daily_pnl = 0,
              !.daily_loss_limit_hit = FALSE,
              !.daily_start_value = r.portfolio_value]


\* ------------------------------------------------------------------------
\* ExecutionEngine
\* ------------------------------------------------------------------------
execVars == <<trading_mode, current_position, pending_orders, completed_orders,
              is_monitoring, broker_book, pc, cur_sig, cur_qty, attempt,
              mon_pc, scan_size, scan_done, orders_to_remove, scan_failed,
              entry_orders, sig_pre>>

monVars == <<mon_pc, scan_size, scan_done, orders_to_remove, scan_failed>>

\* the historical data store, and the state of strategy_deploy_1.py
feedVars == <<latest_data, feed_file>>
dataVars == <<files, writer, clock, feedVars>>
deployVars == <<swing_levels, live_file, live_data, broker_orders, strategy_positions>>

OrderIds(d) == {o.order_id : o \in d}
GetOrder(d, id) == CHOOSE o \in d : o.order_id = id

\* ExecutionEngine._validate_signal
validate_signal(sig) ==
    /\ sig.symbol # ""
    /\ sig.confidence >= 50
    /\ trading_mode \in {"live", "paper"}

\* strategy_manager.strategies[symbol].update_position(signal), for an entry
\* or exit signal; raised: the symbol has no registered strategy (KeyError)
strategy_update(cp, sig) ==
    IF sig.symbol \notin DOMAIN cp THEN [cp |-> cp, raised |-> TRUE]
    ELSE [cp |-> [cp EXCEPT ![sig.symbol] =
                    IF sig.signal_type = "BUY" THEN "long"
                    ELSE IF sig.signal_type = "SELL" THEN "short"
                    ELSE "none"],
          raised |-> FALSE]

\* the handler returns: RiskManager state r, strategy positions cp, result value
Finish(r, cp, value) ==
    /\ SetRM(r)
    /\ current_position' = cp
    /\ ret' = value
    /\ pc' = "idle"

EntrySide(sig) == IF sig.signal_type = "BUY" THEN "long" ELSE "short"

\* signal.metadata.get('stop_loss', signal.price * 0.95)
EntryStop(sig) ==
    IF sig.stop_loss = <<>> THEN (sig.price * 95) \div 100 ELSE sig.stop_loss[1]

\* _execute_entry_signal placing the order before it opens the Position
ExecuteEntryOrderFirst(sig) ==
    LET side == EntrySide(sig)
        stop_loss == EntryStop(sig)
        quantity == calculate_position_size(RM, sig.symbol, sig.price, stop_loss, side)
        q == IF trading_mode = "paper" THEN Min(quantity, TEST_QUANTITY) ELSE quantity
        res == open_position(RM, sig.symbol, side, q, sig.price, <<stop_loss>>)
    IN  IF quantity = 0
        THEN Finish(RM, current_position, FALSE) /\ cur_qty' = 0
        ELSE IF trading_mode = "live"
        THEN /\ pc' = "entry"
             /\ cur_qty' = q
             /\ UNCHANGED <<rmVars, current_position, ret>>
        ELSE LET su == strategy_update(current_position, sig)
             IN  Finish(res.rm, su.cp, ~su.raised) /\ cur_qty' = 0

\* _execute_entry_signal without its except clause: the KeyError of an
\* unregistered symbol leaves the call without a return value
ExecuteEntryUncaught(sig) ==
    LET side == EntrySide(sig)
        stop_loss == EntryStop(sig)
        quantity == calculate_position_size(RM, sig.symbol, sig.price, stop_loss, side)
        q == IF trading_mode = "paper" THEN Min(quantity, TEST_QUANTITY) ELSE quantity
        res == open_position(RM, sig.symbol, side, q, sig.price, <<stop_loss>>)
    IN  IF quantity = 0
        THEN Finish(RM, current_position, FALSE) /\ cur_qty' = 0
        ELSE IF ~res.ret
        THEN Finish(res.rm, current_position, FALSE) /\ cur_qty' = 0
        ELSE IF trading_mode = "live"
        THEN /\ SetRM(res.rm)
             /\ pc' = "entry"
             /\ cur_qty' = q
             /\ UNCHANGED <<current_position, ret>>
        ELSE LET su == strategy_update(current_position, sig)
             IN  Finish(res.rm, su.cp, IF su.raised THEN ret ELSE TRUE) /\ cur_qty' = 0

\* _execute_entry_signal up to the call of _place_order
ExecuteEntry(sig) ==
    LET side == EntrySide(sig)
        stop_loss == EntryStop(sig)
        quantity == calculate_position_size(RM, sig.symbol, sig.price, stop_loss, side)
        q == IF trading_mode = "paper" THEN Min(quantity, TEST_QUANTITY) ELSE quantity
        res == open_position(RM, sig.symbol, side, q, sig.price, <<stop_loss>>)
    IN  IF quantity = 0
        THEN Finish(RM, current_position, FALSE) /\ cur_qty' = 0
        ELSE IF ~res.ret
        THEN Finish(res.rm, current_position, FALSE) /\ cur_qty' = 0
        ELSE IF trading_mode = "live"
        THEN /\ SetRM(res.rm)
             /\ pc' = "entry"
             /\ cur_qty' = q
             /\ UNCHANGED <<current_position, ret>>
        ELSE LET su == strategy_update(current_position, sig)
             IN  Finish(res.rm, su.cp, ~su.raised) /\ cur_qty' = 0

\* _execute_exit_signal after its order (if any) was placed
exit_finish(r, cp, sig) ==
    LET su == strategy_update(cp, sig)
    IN  [rm |-> close_position(r, sig.symbol, <<sig.price>>).rm,
         cp |-> su.cp, ret |-> ~su.raised]

\* _execute_exit_signal without the side check
ExecuteExitAnySide(sig) ==
    IF ~Has(positions, sig.symbol)
    THEN Finish(RM, current_position, TRUE) /\ cur_qty' = 0
    ELSE
    LET position == Get(positions, sig.symbol)
    IN  IF trading_mode = "live"
        THEN /\ pc' = "exit"
             /\ cur_qty' = position.quantity
             /\ UNCHANGED <<rmVars, current_position, ret>>
        ELSE LET f == exit_finish(RM, current_position, sig)
             IN  Finish(f.rm, f.cp, f.ret) /\ cur_qty' = 0

\* _execute_exit_signal up to the call of _place_order
ExecuteExit(sig) ==
    IF ~Has(positions, sig.symbol)
    THEN Finish(RM, current_position, TRUE) /\ cur_qty' = 0
    ELSE
    LET position == Get(positions, sig.symbol)
        expected_side == IF sig.signal_type = "EXIT_LONG" THEN "long" ELSE "short"
    IN  IF position.side # expected_side
        THEN Finish(RM, current_position, FALSE) /\ cur_qty' = 0
        ELSE IF trading_mode = "live"
        THEN /\ pc' = "exit"
             /\ cur_qty' = position.quantity
             /\ UNCHANGED <<rmVars, current_position, ret>>
        ELSE LET f == exit_finish(RM, current_position, sig)
             IN  Finish(f.rm, f.cp, f.ret) /\ cur_qty' = 0

\* trade records one process_signal call can append
SignalCloses(sig) ==
    IF sig.signal_type \in EntrySignalTypes
    THEN (IF Has(positions, sig.symbol) THEN 1 ELSE 0) + 1
    ELSE 1

\* ExecutionEngine.process_signal(sig), up to its return or to the first
\* broker call
ProcessSignalStep(sig) ==
    /\ pc = "idle"
    /\ Len(trade_history) + SignalCloses(sig) <= MaxTrades
    /\ cur_sig' = sig
    /\ attempt' = 0
    /\ sig_pre' = [portfolio_value |-> portfolio_value,
                   had_position |-> Has(positions, sig.symbol)]
    /\ lastOp' = [op |-> "process_signal"]
    /\ IF ~validate_signal(sig)
       THEN Finish(RM, current_position, FALSE) /\ cur_qty' = 0
       ELSE IF sig.signal_type \in EntrySignalTypes THEN ExecuteEntry(sig)
       ELSE IF sig.signal_type \in ExitSignalTypes THEN ExecuteExit(sig)
       ELSE Finish(RM, current_position, TRUE) /\ cur_qty' = 0
    /\ UNCHANGED <<dataVars, deployVars, trading_mode, pending_orders, completed_orders, is_monitoring,
                   broker_book, monVars, entry_orders>>

ProcessSignal == \E sig \in Signals : ProcessSignalStep(sig)

\* the entry path leaving the Position open when the order failed
entry_rollback_skipped(r, symbol) == r

\* the entry path when _place_order returned False
entry_rollback(r, symbol) == close_position(r, symbol, <<>>).rm

\* side of the order _place_order sends
OrderSide ==
    IF pc = "entry"
    THEN IF cur_sig.signal_type = "BUY" THEN "BUY" ELSE "SELL"
    ELSE IF Get(positions, cur_sig.symbol).side = "long" THEN "SELL" ELSE "BUY"

NextOrderId == Cardinality(DOMAIN broker_book) + 1

\* one iteration of the retry loop of _place_order: one broker place_order
\* call; ok = the response has a status and an order id.  The step that ends
\* the loop runs the handler to its return.  cap bounds the ids the broker
\* hands out.
PlaceAttemptUpTo(cap) ==
    \E ok \in BOOLEAN :
        /\ pc \in {"entry", "exit"}
        /\ ok => NextOrderId <= cap
        /\ lastOp' = [op |-> "place_order", ok |-> ok]
        /\ IF ~ok /\ attempt + 1 < MAX_ORDER_RETRY
           THEN attempt' = attempt + 1 /\ cur_qty' = cur_qty
           ELSE attempt' = 0 /\ cur_qty' = 0
        /\ IF ok
           THEN LET order == [order_id |-> NextOrderId, symbol |-> cur_sig.symbol,
                              side |-> OrderSide, quantity |-> cur_qty,
                              price |-> cur_sig.price, status |-> "OPEN",
                              filled_quantity |-> 0, average_price |-> 0]
                IN  /\ pending_orders' = pending_orders \cup {order}
                    /\ broker_book' = (NextOrderId :> "OPEN") @@ broker_book
                    /\ IF pc = "entry"
                       THEN /\ entry_orders' = entry_orders \cup {NextOrderId}
                            /\ LET su == strategy_update(current_position, cur_sig)
                               IN  Finish(RM, su.cp, ~su.raised)
                       ELSE /\ entry_orders' = entry_orders
                            /\ LET f == exit_finish(RM, current_position, cur_sig)
                               IN  Finish(f.rm, f.cp, f.ret)
           ELSE /\ UNCHANGED <<pending_orders, broker_book, entry_orders>>
                /\ IF attempt + 1 < MAX_ORDER_RETRY
                   THEN UNCHANGED <<rmVars, current_position, ret, pc>>
                   ELSE IF pc = "entry"
                   THEN Finish(entry_rollback(RM, cur_sig.symbol), current_position, FALSE)
                   ELSE Finish(RM, current_position, FALSE)
        /\ UNCHANGED <<dataVars, deployVars, trading_mode, completed_orders, is_monitoring, monVars,
                       cur_sig, sig_pre>>

\* _place_order registering an Order for a failed placement as well
PlaceAttemptRegistersFailure ==
    \E ok \in BOOLEAN :
        /\ pc \in {"entry", "exit"}
        /\ ok => NextOrderId <= MaxOrders
        /\ lastOp' = [op |-> "place_order", ok |-> ok]
        /\ IF ~ok /\ attempt + 1 < MAX_ORDER_RETRY
           THEN attempt' = attempt + 1 /\ cur_qty' = cur_qty
           ELSE attempt' = 0 /\ cur_qty' = 0
        /\ IF ok
           THEN LET order == [order_id |-> NextOrderId, symbol |-> cur_sig.symbol,
                              side |-> OrderSide, quantity |-> cur_qty,
                              price |-> cur_sig.price, status |-> "OPEN",
                              filled_quantity |-> 0, average_price |-> 0]
                IN  /\ pending_orders' = pending_orders \cup {order}
                    /\ broker_book' = (NextOrderId :> "OPEN") @@ broker_book
                    /\ IF pc = "entry"
                       THEN /\ entry_orders' = entry_orders \cup {NextOrderId}
                            /\ LET su == strategy_update(current_position, cur_sig)
                               IN  Finish(RM, su.cp, ~su.raised)
                       ELSE /\ entry_orders' = entry_orders
                            /\ LET f == exit_finish(RM, current_position, cur_sig)
                               IN  Finish(f.rm, f.cp, f.ret)
           ELSE /\ UNCHANGED <<broker_book, entry_orders>>
                /\ pending_orders' =
                      IF attempt + 1 < MAX_ORDER_RETRY THEN pending_orders
                      ELSE pending_orders \cup
                           {[order_id |-> 0, symbol |-> cur_sig.symbol,
                             side |-> OrderSide, quantity |-> cur_qty,
                             price |-> cur_sig.price, status |-> "PENDING",
                             filled_quantity |-> 0, average_price |-> 0]}
                /\ IF attempt + 1 < MAX_ORDER_RETRY
                   THEN UNCHANGED <<rmVars, current_position, ret, pc>>
                   ELSE IF pc = "entry"
                   THEN Finish(entry_rollback(RM, cur_sig.symbol), current_position, FALSE)
                   ELSE Finish(RM, current_position, FALSE)
        /\ UNCHANGED <<dataVars, deployVars, trading_mode, completed_orders, is_monitoring, monVars,
                       cur_sig, sig_pre>>

\* _place_order in the engine model
PlaceAttempt == PlaceAttemptUpTo(MaxOrders)

\* TradingSystem.initialize, the first thing a run of main.py does: sets the
\* trading mode and starts the engine (ExecutionEngine.start spawns the
\* monitor thread).  Without it (tests) the engine runs with the settings.py
\* mode and no monitor.
Initialize ==
    \E m \in TradingModes :
        /\ mon_pc = "none"
        /\ lastOp.op = "init"
        /\ trading_mode' = m
        /\ is_monitoring' = TRUE
        /\ mon_pc' = "sleep"
        /\ UNCHANGED <<dataVars, deployVars, rmVars, current_position, pending_orders, completed_orders,
                       broker_book, pc, cur_sig, cur_qty, attempt, scan_size,
                       scan_done, orders_to_remove, scan_failed, entry_orders,
                       sig_pre, lastOp, ret>>

\* the exchange fills, rejects or cancels an open order
BrokerUpdate ==
    \E id \in DOMAIN broker_book, st \in {"COMPLETE", "REJECTED", "CANCELLED"} :
        /\ broker_book[id] = "OPEN"
        /\ broker_book' = [broker_book EXCEPT ![id] = st]
        /\ UNCHANGED <<dataVars, deployVars, rmVars, trading_mode, current_position, pending_orders,
                       completed_orders, is_monitoring, pc, cur_sig, cur_qty,
                       attempt, monVars, entry_orders, sig_pre, lastOp, ret>>

\* _monitor_orders: the while test and the start of the for loop.  With no
\* pending order the whole iteration makes no call and changes nothing.
MonitorBegin ==
    /\ mon_pc = "sleep"
    /\ is_monitoring
    /\ pending_orders # {}
    /\ mon_pc' = "scan"
    /\ scan_size' = Cardinality(pending_orders)
    /\ scan_done' = {}
    /\ orders_to_remove' = {}
    /\ scan_failed' = {}
    /\ UNCHANGED <<dataVars, deployVars, rmVars, trading_mode, current_position, pending_orders,
                   completed_orders, is_monitoring, broker_book, pc, cur_sig,
                   cur_qty, attempt, entry_orders, sig_pre, lastOp, ret>>

\* Order.update_status leaving the Order as it was
update_status_ignored(o, status, filled_qty, avg_price) == o

\* Order.update_status
update_status(o, status, filled_qty, avg_price) ==
    [o EXCEPT !.status = status, !.filled_quantity = filled_qty,
              !.average_price = avg_price]

\* the "Remove completed orders" loop without the del
RemoveCompletedKeepsPending(pend, comp, ids) ==
    [pending |-> pend,
     completed |-> {c \in comp : c.order_id \notin (ids \cap OrderIds(pend))}
                   \cup {o \in pend : o.order_id \in ids}]

\* the "Remove completed orders" loop
RemoveCompleted(pend, comp, ids) ==
    [pending |-> {o \in pend : o.order_id \notin ids},
     completed |-> {c \in comp : c.order_id \notin (ids \cap OrderIds(pend))}
                   \cup {o \in pend : o.order_id \in ids}]

\* _monitor_orders: one step of the for loop over pending_orders.items(), or
\* the rest of the iteration once the loop is exhausted.
\* book: get_order_book returned a book ("ok") or failed; "timeout": it
\* returned a book and the order is older than order_timeout, and the broker
\* then accepted ("timeout_cancelled") or refused the cancel.
BookOutcomes ==
    IF Cardinality(pending_orders) = scan_size
       /\ \E o \in pending_orders :
             /\ o.order_id \notin scan_done
             /\ o.order_id \in DOMAIN broker_book
             /\ broker_book[o.order_id] = "OPEN"
    THEN {"ok", "failed", "timeout", "timeout_cancelled"}
    ELSE IF Cardinality(pending_orders) = scan_size
            /\ ~(OrderIds(pending_orders) \subseteq scan_done)
    THEN {"ok", "failed"}
    ELSE {"ok"}

\* _monitor_orders without its except clauses: an exception ends the thread
MonitorCheckDiesOnError(book) ==
      LET book_ok == book # "failed"
          timed_out == book \in {"timeout", "timeout_cancelled"}
          cancel_ok == book = "timeout_cancelled"
      IN
        /\ mon_pc = "scan"
        /\ UNCHANGED <<dataVars, deployVars, rmVars, trading_mode, current_position, is_monitoring,
                       pc, cur_sig, cur_qty, attempt, entry_orders,
                       sig_pre, lastOp, ret>>
        /\ IF Cardinality(pending_orders) # scan_size
           THEN \* RuntimeError: dictionary changed size during iteration
                /\ mon_pc' = "dead"
                /\ scan_size' = 0 /\ scan_done' = {} /\ orders_to_remove' = {}
                /\ scan_failed' = {}
                /\ UNCHANGED <<pending_orders, completed_orders, broker_book>>
           ELSE IF OrderIds(pending_orders) \subseteq scan_done
           THEN LET rc == RemoveCompleted(pending_orders, completed_orders,
                                          orders_to_remove)
                IN  /\ pending_orders' = rc.pending
                    /\ completed_orders' = rc.completed
                    /\ mon_pc' = "sleep"
                    /\ scan_size' = 0 /\ scan_done' = {} /\ orders_to_remove' = {}
                    /\ scan_failed' = {}
                    /\ UNCHANGED broker_book
           ELSE
           LET order_id == CHOOSE i \in OrderIds(pending_orders) \ scan_done :
                              \A j \in OrderIds(pending_orders) \ scan_done : i <= j
               order == GetOrder(pending_orders, order_id)
               status == IF book_ok /\ order_id \in DOMAIN broker_book
                         THEN broker_book[order_id] ELSE "NONE"
               Put(o) == {x \in pending_orders : x.order_id # order_id} \cup {o}
           IN  /\ scan_done' = scan_done \cup {order_id}
               /\ scan_failed' = IF book_ok THEN scan_failed
                                 ELSE scan_failed \cup {order_id}
               /\ scan_size' = scan_size
               /\ mon_pc' = IF book_ok THEN "scan" ELSE "dead"
               /\ completed_orders' = completed_orders
               /\ IF status = "COMPLETE"
                  THEN /\ pending_orders' =
                             Put(update_status(order, "FILLED", order.quantity, order.price))
                       /\ orders_to_remove' = orders_to_remove \cup {order_id}
                       /\ broker_book' = broker_book
                  ELSE IF status \in {"CANCELLED", "REJECTED"}
                  THEN /\ pending_orders' = Put(update_status(order, status, 0, 0))
                       /\ orders_to_remove' = orders_to_remove \cup {order_id}
                       /\ broker_book' = broker_book
                  ELSE IF status = "OPEN" /\ timed_out
                  THEN /\ pending_orders' = Put(update_status(order, "CANCELLED", 0, 0))
                       /\ orders_to_remove' = orders_to_remove \cup {order_id}
                       /\ broker_book' = IF cancel_ok
                                         THEN [broker_book EXCEPT ![order_id] = "CANCELLED"]
                                         ELSE broker_book
                  ELSE UNCHANGED <<pending_orders, orders_to_remove, broker_book>>

\* _monitor_orders, one step (see above)
MonitorCheck(book) ==
      LET book_ok == book # "failed"
          timed_out == book \in {"timeout", "timeout_cancelled"}
          cancel_ok == book = "timeout_cancelled"
      IN
        /\ mon_pc = "scan"
        /\ UNCHANGED <<dataVars, deployVars, rmVars, trading_mode, current_position, is_monitoring,
                       pc, cur_sig, cur_qty, attempt, entry_orders,
                       sig_pre, lastOp, ret>>
        /\ IF Cardinality(pending_orders) # scan_size
           THEN \* RuntimeError: dictionary changed size during iteration
                /\ mon_pc' = "sleep"
                /\ scan_size' = 0 /\ scan_done' = {} /\ orders_to_remove' = {}
                /\ scan_failed' = {}
                /\ UNCHANGED <<pending_orders, completed_orders, broker_book>>
           ELSE IF OrderIds(pending_orders) \subseteq scan_done
           THEN LET rc == RemoveCompleted(pending_orders, completed_orders,
                                          orders_to_remove)
                IN  /\ pending_orders' = rc.pending
                    /\ completed_orders' = rc.completed
                    /\ mon_pc' = "sleep"
                    /\ scan_size' = 0 /\ scan_done' = {} /\ orders_to_remove' = {}
                    /\ scan_failed' = {}
                    /\ UNCHANGED broker_book
           ELSE
           LET order_id == CHOOSE i \in OrderIds(pending_orders) \ scan_done :
                              \A j \in OrderIds(pending_orders) \ scan_done : i <= j
               order == GetOrder(pending_orders, order_id)
               status == IF book_ok /\ order_id \in DOMAIN broker_book
                         THEN broker_book[order_id] ELSE "NONE"
               Put(o) == {x \in pending_orders : x.order_id # order_id} \cup {o}
           IN  /\ scan_done' = scan_done \cup {order_id}
               /\ scan_failed' = IF book_ok THEN scan_failed
                                 ELSE scan_failed \cup {order_id}
               /\ scan_size' = scan_size
               /\ mon_pc' = "scan"
               /\ completed_orders' = completed_orders
               /\ IF status = "COMPLETE"
                  THEN /\ pending_orders' =
                             Put(update_status(order, "FILLED", order.quantity, order.price))
                       /\ orders_to_remove' = orders_to_remove \cup {order_id}
                       /\ broker_book' = broker_book
                  ELSE IF status \in {"CANCELLED", "REJECTED"}
                  THEN /\ pending_orders' = Put(update_status(order, status, 0, 0))
                       /\ orders_to_remove' = orders_to_remove \cup {order_id}
                       /\ broker_book' = broker_book
                  ELSE IF status = "OPEN" /\ timed_out
                  THEN /\ pending_orders' = Put(update_status(order, "CANCELLED", 0, 0))
                       /\ orders_to_remove' = orders_to_remove \cup {order_id}
                       /\ broker_book' = IF cancel_ok
                                         THEN [broker_book EXCEPT ![order_id] = "CANCELLED"]
                                         ELSE broker_book
                  ELSE UNCHANGED <<pending_orders, orders_to_remove, broker_book>>

MonitorStep == \E book \in BookOutcomes : MonitorCheck(book)

\* ------------------------------------------------------------------------
\* Initial state: RiskManager.__init__, ExecutionEngine.__init__, settings.py
\* ------------------------------------------------------------------------
\* no candle file written, no save in progress
DataIdle ==
    /\ files = <<>>
    /\ writer = [pc |-> "idle"]
    /\ clock = 0
    /\ latest_data = <<>>
    /\ feed_file = <<>>

\* TradingStrategy before any update cycle, with no snapshot file yet
DeployIdle ==
    /\ swing_levels = <<>>
    /\ live_file = [exists |-> FALSE]
    /\ live_data = <<>>
    /\ broker_orders = <<>>
    /\ strategy_positions = <<>>

Init ==
    /\ positions = {}
    /\ portfolio_value = MAX_POSITION_SIZE
    /\ daily_start_value = MAX_POSITION_SIZE
    /\ daily_pnl = 0
    /\ peak_portfolio_value = MAX_POSITION_SIZE
    /\ max_drawdown = 0
    /\ trade_history = <<>>
    /\ daily_loss_limit_hit = FALSE
    /\ portfolio_stop_active = FALSE
    /\ trading_mode = "live"
    /\ current_position = [s \in {"NIFTY"} |-> "none"]
    /\ pending_orders = {}
    /\ completed_orders = {}
    /\ is_monitoring = FALSE
    /\ broker_book = <<>>
    /\ pc = "idle"
    /\ cur_sig = Sig("", "HOLD", 100, 100, <<>>)
    /\ cur_qty = 0
    /\ attempt = 0
    /\ mon_pc = "none"
    /\ scan_size = 0
    /\ scan_done = {}
    /\ orders_to_remove = {}
    /\ scan_failed = {}
    /\ entry_orders = {}
    /\ sig_pre = [portfolio_value |-> MAX_POSITION_SIZE, had_position |-> FALSE]
    /\ lastOp = [op |-> "init"]
    /\ ret = TRUE
    /\ DataIdle
    /\ DeployIdle

\* ------------------------------------------------------------------------
\* Direct calls of the RiskManager API
\* ------------------------------------------------------------------------
\* every close appends one trade record: a call may run only when all the
\* closes it can make still fit under MaxTrades
Room == Len(trade_history) + Cardinality(positions) <= MaxTrades

PriceMaps == UNION {[S -> UpdatePrices] : S \in SUBSET Symbols}

OpenPosition ==
    \E s \in Symbols, a \in OpenArgs :
        /\ pc = "idle"
        /\ Room
        /\ LET res == open_position(RM, s, a.side, a.quantity, a.entry_price, a.stop_loss)
           IN  /\ SetRM(res.rm)
               /\ ret' = res.ret
        /\ lastOp' = [op |-> "open_position", symbol |-> s, args |-> a,
                      replaced |-> Has(positions, s)]
        /\ UNCHANGED <<execVars, dataVars, deployVars>>

ClosePosition ==
    \E s \in Symbols, x \in ExitInputs :
        /\ pc = "idle"
        /\ Room
        /\ LET res == close_position(RM, s, x)
           IN  /\ SetRM(res.rm)
               /\ ret' = res.ret
        /\ lastOp' = [op |-> "close_position", symbol |-> s]
        /\ UNCHANGED <<execVars, dataVars, deployVars>>

UpdatePositions ==
    \E pm \in PriceMaps :
        /\ pc = "idle"
        /\ Room
        /\ SetRM(update_positions(RM, pm))
        /\ ret' = TRUE
        /\ lastOp' = [op |-> "update_positions",
                      price_updates |-> [s \in DOMAIN pm \cap Keys(positions) |-> pm[s]],
                      len0 |-> Len(trade_history),
                      hit0 |-> daily_loss_limit_hit,
                      stop0 |-> portfolio_stop_active]
        /\ UNCHANGED <<execVars, dataVars, deployVars>>

ResetDailyStats ==
    /\ pc = "idle"
    /\ SetRM(reset_daily_stats(RM))
    /\ ret' = TRUE
    /\ lastOp' = [op |-> "reset_daily_stats"]
    /\ UNCHANGED <<execVars, dataVars, deployVars>>

vars == <<rmVars, execVars, lastOp, ret, dataVars, deployVars>>

\* the execution engine: signals, order placement, broker, order monitor
Next ==
    \/ Initialize
    \/ ProcessSignal
    \/ PlaceAttempt
    \/ BrokerUpdate
    \/ MonitorBegin
    \/ MonitorStep

Spec == Init /\ [][Next]_vars

\* the RiskManager API called directly
NextRM ==
    \/ OpenPosition
    \/ ClosePosition
    \/ UpdatePositions
    \/ ResetDailyStats

SpecRM == Init /\ [][NextRM]_vars

\* ------------------------------------------------------------------------
\* calculate_position_size on its own: any RiskManager state, any arguments
\* ------------------------------------------------------------------------
\* symbols of the positions already open (open_position takes any symbol and
\* does not look at max_positions)
HeldSymbols == <<"S1", "S2", "S3", "S4", "S5", "S6", "S7", "S8", "S9", "S10", "S11">>
HeldCounts == {0, 1, MAX_POSITIONS - 1, MAX_POSITIONS, MAX_POSITIONS + 1}
Held(n) ==
    {[symbol |-> HeldSymbols[i], side |-> "long", quantity |-> 1,
      entry_price |-> 100, current_price |-> 100, stop_loss |-> 95,
      take_profit |-> 110] : i \in 1..n}
PortfolioValues == {MAX_POSITION_SIZE, 60000, 150, -900000}
CalcSymbols == {"NIFTY", "nifty", "TEST"}
CalcPrices == {95, 100, 120, 3995, 4000, 200000}

InitCalc ==
    /\ \E n \in HeldCounts : positions = Held(n)
    /\ portfolio_value \in PortfolioValues
    /\ daily_start_value = MAX_POSITION_SIZE
    /\ daily_pnl = 0
    /\ peak_portfolio_value = MAX_POSITION_SIZE
    /\ max_drawdown = 0
    /\ trade_history = <<>>
    /\ daily_loss_limit_hit \in BOOLEAN
    /\ portfolio_stop_active = FALSE
    /\ trading_mode = "live"
    /\ current_position = [s \in {"NIFTY"} |-> "none"]
    /\ pending_orders = {}
    /\ completed_orders = {}
    /\ is_monitoring = FALSE
    /\ broker_book = <<>>
    /\ pc = "idle"
    /\ cur_sig = Sig("", "HOLD", 100, 100, <<>>)
    /\ cur_qty = 0
    /\ attempt = 0
    /\ mon_pc = "none"
    /\ scan_size = 0
    /\ scan_done = {}
    /\ orders_to_remove = {}
    /\ scan_failed = {}
    /\ entry_orders = {}
    /\ sig_pre = [portfolio_value |-> MAX_POSITION_SIZE, had_position |-> FALSE]
    /\ lastOp = [op |-> "init"]
    /\ ret = 0
    /\ DataIdle
    /\ DeployIdle

\* risk_manager.calculate_position_size(symbol, entry_price, stop_loss, side):
\* it assigns no attribute, and its try/except turns every exception into
\* the return value 0
CalculatePositionSize ==
    \E s \in CalcSymbols, e \in CalcPrices, sl \in CalcPrices, sd \in Sides :
        /\ ret' = calculate_position_size(RM, s, e, sl, sd)
        /\ lastOp' = [op |-> "calculate_position_size", symbol |-> s,
                      entry_price |-> e, stop_loss |-> sl, side |-> sd]
        /\ UNCHANGED <<rmVars, execVars, dataVars, deployVars>>

NextCalc == CalculatePositionSize

SpecCalc == InitCalc /\ [][NextCalc]_vars

\* ------------------------------------------------------------------------
\* The order monitor with several orders in flight, and engine shutdown
\* ------------------------------------------------------------------------
MaxMonOrders == 2       \* cap on broker-assigned order ids in SpecMon
MonSignals == {Sig("NIFTY", "BUY", 100, 100, <<>>)}

ProcessSignalMon == \E sig \in MonSignals : ProcessSignalStep(sig)

PlaceAttemptMon == PlaceAttemptUpTo(MaxMonOrders)

\* _cancel_all_pending_orders: one broker cancel per pending order id;
\* cancelled = the ids whose cancel the broker accepted.  Neither
\* pending_orders nor any Order is assigned.
cancel_all_pending_orders(book, pend, cancelled) ==
    [id \in DOMAIN book |->
        IF id \in cancelled /\ id \in OrderIds(pend) /\ book[id] = "OPEN"
        THEN "CANCELLED" ELSE book[id]]

\* ExecutionEngine.stop(): is_monitoring = False, join the monitor thread
\* for at most 5 seconds (it may still be inside an iteration afterwards),
\* then _cancel_all_pending_orders
Stop ==
    \E cancelled \in SUBSET OrderIds(pending_orders) :
        /\ pc = "idle"
        /\ is_monitoring
        /\ is_monitoring' = FALSE
        /\ broker_book' = cancel_all_pending_orders(broker_book, pending_orders, cancelled)
        /\ lastOp' = [op |-> "stop", cancel_requests |-> OrderIds(pending_orders)]
        /\ ret' = TRUE
        /\ UNCHANGED <<dataVars, deployVars, rmVars, trading_mode, current_position, pending_orders,
                       completed_orders, pc, cur_sig, cur_qty, attempt, monVars,
                       entry_orders, sig_pre>>

NextMon ==
    \/ Initialize
    \/ ProcessSignalMon
    \/ PlaceAttemptMon
    \/ BrokerUpdate
    \/ MonitorBegin
    \/ MonitorStep
    \/ Stop

SpecMon == Init /\ [][NextMon]_vars

\* the for loop of the monitor is at order id: the first pending order it has
\* not yet yielded
Scanning(id) ==
    /\ mon_pc = "scan"
    /\ Cardinality(pending_orders) = scan_size
    /\ id \in OrderIds(pending_orders) \ scan_done
    /\ \A j \in OrderIds(pending_orders) \ scan_done : id <= j

\* the check of order id gets an order book
MonitorBookOk(id) ==
    /\ Scanning(id)
    /\ \E book \in BookOutcomes \cap {"ok"} : MonitorCheck(book)

\* the check of order id gets an order book that reports it OPEN, and finds
\* it older than order_timeout
MonitorTimeout(id) ==
    /\ Scanning(id)
    /\ broker_book[id] = "OPEN"
    /\ \E book \in BookOutcomes \cap {"timeout", "timeout_cancelled"} : MonitorCheck(book)

\* the engine while nobody calls stop()
NextMonRunning ==
    \/ Initialize
    \/ ProcessSignalMon
    \/ PlaceAttemptMon
    \/ BrokerUpdate
    \/ MonitorBegin
    \/ MonitorStep

\* the running engine with a monitor thread that keeps running (time.sleep
\* returns), a broker whose order book does not fail for ever, and time that
\* passes: an order that stays OPEN is at some check older than order_timeout
FairSpecMon ==
    /\ Init /\ [][NextMonRunning]_vars
    /\ WF_vars(MonitorBegin)
    /\ WF_vars(MonitorStep)
    /\ \A id \in 1..MaxMonOrders : SF_vars(MonitorBookOk(id))
    /\ \A id \in 1..MaxMonOrders : SF_vars(MonitorTimeout(id))

\* ------------------------------------------------------------------------
\* Historical data (modules/data_module/historical_data.py)
\*
\* A timestamp is a number of minutes: 1440 * day + minute of the day, so
\* 09:15 of day 0 is 555.  A DataFrame is the sequence of its rows.
\* ------------------------------------------------------------------------
MaxSeriesLen == 2   \* cap on the rows of a DataFrame handed to a merge

\* the engine as constructed, for the specifications that never run it
EngineIdle ==
    /\ positions = {}
    /\ portfolio_value = MAX_POSITION_SIZE
    /\ daily_start_value = MAX_POSITION_SIZE
    /\ daily_pnl = 0
    /\ peak_portfolio_value = MAX_POSITION_SIZE
    /\ max_drawdown = 0
    /\ trade_history = <<>>
    /\ daily_loss_limit_hit = FALSE
    /\ portfolio_stop_active = FALSE
    /\ trading_mode = "live"
    /\ current_position = [s \in {"NIFTY"} |-> "none"]
    /\ pending_orders = {}
    /\ completed_orders = {}
    /\ is_monitoring = FALSE
    /\ broker_book = <<>>
    /\ pc = "idle"
    /\ cur_sig = Sig("", "HOLD", 100, 100, <<>>)
    /\ cur_qty = 0
    /\ attempt = 0
    /\ mon_pc = "none"
    /\ scan_size = 0
    /\ scan_done = {}
    /\ orders_to_remove = {}
    /\ scan_failed = {}
    /\ entry_orders = {}
    /\ sig_pre = [portfolio_value |-> MAX_POSITION_SIZE, had_position |-> FALSE]

\* a row: timestamp, open, high, low, close, volume
Candle(t, o, h, l, c, v) ==
    [timestamp |-> t, open |-> o, high |-> h, low |-> l, close |-> c, volume |-> v]

Timestamps(df) == {df[i].timestamp : i \in 1..Len(df)}

\* the rows of df at the positions idx, in their order
RECURSIVE Rows(_, _)
Rows(df, idx) ==
    IF idx = {} THEN <<>>
    ELSE LET i == CHOOSE k \in idx : \A m \in idx : k <= m
         IN  <<df[i]>> \o Rows(df, idx \ {i})

\* df.drop_duplicates(subset=['timestamp'], keep='last')
drop_duplicates_keep_last(df) ==
    Rows(df, {i \in 1..Len(df) :
                 \A j \in (i + 1)..Len(df) : df[j].timestamp # df[i].timestamp})

\* df.sort_values('timestamp').reset_index(drop=True); rows of one timestamp
\* keep their order here (the calls modelled sort rows of distinct timestamps)
RECURSIVE sort_values(_)
sort_values(df) ==
    IF df = <<>> THEN <<>>
    ELSE LET low == CHOOSE t \in Timestamps(df) : \A u \in Timestamps(df) : t <= u
         IN  SelectSeq(df, LAMBDA r : r.timestamp = low)
             \o sort_values(SelectSeq(df, LAMBDA r : r.timestamp # low))

\* the same with the first of two rows of one timestamp kept
merge_and_deduplicate_keep_first(existing_df, new_df) ==
    LET df == existing_df \o new_df
    IN  sort_values(Rows(df, {i \in 1..Len(df) :
                \A j \in 1..(i - 1) : df[j].timestamp # df[i].timestamp}))

\* HistoricalDataManager._merge_and_deduplicate(existing_df, new_df); its
\* except branch (return existing_df) needs a frame without a timestamp
\* column, which no caller passes
merge_and_deduplicate(existing_df, new_df) ==
    sort_values(drop_duplicates_keep_last(existing_df \o new_df))

\* the rows the merges are tried on: two timestamps, two payloads
Flat(t, v) == Candle(t, v, v, v, v, v)
MergeCandles == {Flat(t, v) : t \in 1..2, v \in 1..2}
SeqsUpTo(S, n) == UNION {[1..k -> S] : k \in 0..n}

InitMerge ==
    /\ EngineIdle
    /\ DataIdle
    /\ DeployIdle
    /\ \E a \in SeqsUpTo(MergeCandles, MaxSeriesLen),
          b \in SeqsUpTo(MergeCandles, MaxSeriesLen) :
            lastOp = [op |-> "input", existing_df |-> a, new_df |-> b]
    /\ ret = <<>>

MergeAndDeduplicate ==
    /\ lastOp.op = "input"
    /\ ret' = merge_and_deduplicate(lastOp.existing_df, lastOp.new_df)
    /\ lastOp' = [lastOp EXCEPT !.op = "_merge_and_deduplicate"]
    /\ UNCHANGED <<rmVars, execVars, dataVars, deployVars>>

NextMerge == MergeAndDeduplicate

SpecMerge == InitMerge /\ [][NextMerge]_vars

\* ------------------------------------------------------------------------
\* The CSV files of one symbol, one per interval.  A file is its header line
\* and its rows; open(filepath, 'w') leaves it with neither.
\* ------------------------------------------------------------------------
MaxSaveRows == 2    \* cap on the rows of a saved DataFrame

Intervals == {"ONE_MINUTE", "FIVE_MINUTE"}

CsvFile(rows) == [header |-> TRUE, rows |-> rows]

\* f with key k set to v
Put(f, k, v) == [x \in DOMAIN f \cup {k} |-> IF x = k THEN v ELSE f[x]]

\* HistoricalDataManager.load_historical_data(symbol, interval): None (<<>>)
\* when the file does not exist, and when pd.read_csv raises (a file of no
\* bytes: EmptyDataError), else the rows it finds (<<df>>)
load_historical_data(fs, interval) ==
    IF interval \notin DOMAIN fs THEN <<>>
    ELSE IF ~fs[interval].header THEN <<>>
    ELSE <<fs[interval].rows>>

\* the frames saved: sorted, one row per timestamp
SaveFrames ==
    {df \in SeqsUpTo({Flat(t, v) : t \in 1..MaxSaveRows, v \in 1..2}, MaxSaveRows) :
        \A i \in 1..(Len(df) - 1) : df[i].timestamp < df[i + 1].timestamp}

InitSave ==
    /\ EngineIdle
    /\ DataIdle
    /\ DeployIdle
    /\ lastOp = [op |-> "init"]
    /\ ret = <<>>

\* df.to_csv(filepath, index=False), first step: the file is opened for
\* writing, which creates or truncates it (save_to_csv and
\* update_resampled_data write the final path directly)
ToCsvOpen ==
    \E interval \in Intervals, df \in SaveFrames :
        /\ writer.pc = "idle"
        /\ writer' = [pc |-> "writing", interval |-> interval, df |-> df,
                      old |-> load_historical_data(files, interval)]
        /\ files' = Put(files, interval, [header |-> FALSE, rows |-> <<>>])
        /\ lastOp' = [op |-> "to_csv"]
        /\ ret' = <<>>
        /\ UNCHANGED <<rmVars, execVars, deployVars, feedVars, clock>>

\* the next buffer of the writer reaches the file: the header, then rows
ToCsvWrite ==
    /\ writer.pc = "writing"
    /\ LET f == files[writer.interval]
       IN  /\ ~f.header \/ Len(f.rows) < Len(writer.df)
           /\ files' = Put(files, writer.interval,
                           IF ~f.header THEN CsvFile(<<>>)
                           ELSE CsvFile(Append(f.rows, writer.df[Len(f.rows) + 1])))
    /\ lastOp' = [op |-> "to_csv"]
    /\ ret' = <<>>
    /\ UNCHANGED <<rmVars, execVars, deployVars, feedVars, writer, clock>>

\* the file is closed with every row written; save_to_csv returns True
ToCsvClose ==
    /\ writer.pc = "writing"
    /\ files[writer.interval] = CsvFile(writer.df)
    /\ writer' = [pc |-> "idle"]
    /\ lastOp' = [op |-> "save_to_csv"]
    /\ ret' = TRUE
    /\ UNCHANGED <<rmVars, execVars, deployVars, feedVars, files, clock>>

\* a reader (the strategy, another process) loads a file at any moment
Load ==
    \E interval \in Intervals :
        /\ ret' = load_historical_data(files, interval)
        /\ lastOp' = [op |-> "load_historical_data", interval |-> interval]
        /\ UNCHANGED <<rmVars, execVars, deployVars, feedVars, files, writer, clock>>

NextSave ==
    \/ ToCsvOpen
    \/ ToCsvWrite
    \/ ToCsvClose
    \/ Load

SpecSave == InitSave /\ [][NextSave]_vars

\* ------------------------------------------------------------------------
\* Late-start detection.  Times of day in minutes: 09:15 = 555, 15:15 = 915,
\* 15:30 = 930; datetime.combine(date, time) = 1440 * date + time.
\* ------------------------------------------------------------------------
MinutesPerDay == 1440
MarketOpen == 555
MarketClose == 930
hour_windows == <<555, 615, 675, 735, 795, 855, 915>>

DateOf(ts) == ts \div MinutesPerDay
TimeOf(ts) == ts % MinutesPerDay
Combine(date, time) == MinutesPerDay * date + time

MaxTimestamp(df) == CHOOSE t \in Timestamps(df) : \A u \in Timestamps(df) : u <= t

\* HistoricalDataManager._get_last_complete_hour_window(), with now as the
\* clock reading: the last window start not after the current time of day
\* (the loop stops at the first later one), else 15:15 of the day before
get_last_complete_hour_window(now) ==
    LET passed == {i \in 1..Len(hour_windows) : TimeOf(now) >= hour_windows[i]}
    IN  IF passed = {}
        THEN Combine(DateOf(now) - 1, 915)
        ELSE Combine(DateOf(now),
                     hour_windows[CHOOSE i \in passed : \A j \in passed : j <= i])

NoBackfill == [needs_backfill |-> FALSE, start_time |-> <<>>, end_time |-> <<>>]

\* HistoricalDataManager._detect_late_start(symbol) ->
\* (needs_backfill, start_time, end_time); None is <<>>
detect_late_start(fs, now) ==
    LET existing_df == load_historical_data(fs, "ONE_MINUTE")
    IN  IF existing_df = <<>> \/ Len(existing_df[1]) = 0 THEN NoBackfill
        ELSE IF DateOf(MaxTimestamp(existing_df[1])) < DateOf(now)
        THEN [needs_backfill |-> TRUE,
              start_time |-> Combine(DateOf(now), MarketOpen),
              end_time |-> IF TimeOf(now) > MarketClose
                           THEN Combine(DateOf(now), MarketClose)
                           ELSE get_last_complete_hour_window(now)]
        ELSE NoBackfill

\* the 1-minute file when the process starts: none, empty, or ending on
\* day 0 or day 1
LatestStamps == {Combine(0, 929), Combine(1, 556), Combine(1, 929), Combine(1, 960)}

InitLate ==
    /\ EngineIdle
    /\ DeployIdle
    /\ writer = [pc |-> "idle"]
    /\ latest_data = <<>>
    /\ feed_file = <<>>
    /\ \/ files = <<>>
       \/ files = Put(<<>>, "ONE_MINUTE", CsvFile(<<>>))
       \/ \E t \in LatestStamps :
             files = Put(<<>>, "ONE_MINUTE", CsvFile(<<Flat(t - 1, 1), Flat(t, 1)>>))
    \* clock readings tried: two days, times of day around every boundary
    /\ \E d \in {1, 2},
          t \in {0, 554, 555, 556, 614, 615, 700, 914, 915, 929, 930, 931, 1439} :
             clock = Combine(d, t)
    /\ lastOp = [op |-> "init"]
    /\ ret = <<>>

DetectLateStart ==
    /\ lastOp.op = "init"
    /\ ret' = detect_late_start(files, clock)
    /\ lastOp' = [op |-> "_detect_late_start"]
    /\ UNCHANGED <<rmVars, execVars, dataVars, deployVars>>

NextLate == DetectLateStart

SpecLate == InitLate /\ [][NextLate]_vars

\* ------------------------------------------------------------------------
\* Resampling (modules/data_module/data_processor.py)
\* ------------------------------------------------------------------------
MaxResampleRows == 3    \* cap on the rows of a DataFrame handed to resample_data

\* update_resampled_data: timeframe -> interval name of its file
timeframe_map ==
    [tf \in {"3min", "5min", "10min", "15min", "30min", "1H"} |->
        CASE tf = "3min" -> "THREE_MINUTE"
          [] tf = "5min" -> "FIVE_MINUTE"
          [] tf = "10min" -> "TEN_MINUTE"
          [] tf = "15min" -> "FIFTEEN_MINUTE"
          [] tf = "30min" -> "THIRTY_MINUTE"
          [] tf = "1H" -> "ONE_HOUR"]

Timeframes == DOMAIN timeframe_map

\* minutes in one period of a pandas frequency string
Freq(tf) ==
    CASE tf = "3min" -> 3
      [] tf = "5min" -> 5
      [] tf = "10min" -> 10
      [] tf = "15min" -> 15
      [] tf = "30min" -> 30
      [] tf = "1H" -> 60

\* the rows validate_candle_data accepts
ValidBar(r) == r.low <= r.open /\ r.low <= r.close /\ r.open <= r.high /\ r.close <= r.high

\* DataProcessor.filter_market_hours(df): rows whose time of day is at or
\* before MARKET_CLOSE
filter_market_hours(df) == SelectSeq(df, LAMBDA r : TimeOf(r.timestamp) <= MarketClose)

\* start of the bin pandas puts a timestamp in: df.resample(freq) has
\* closed='left' and origin='start_day', so bins are counted from midnight
\* of the first day; every frequency here divides a day, so they are the
\* multiples of the period
BinStart(ts, tf) == (ts \div Freq(tf)) * Freq(tf)

MaxOf(S) == CHOOSE x \in S : \A y \in S : y <= x
MinOf(S) == CHOOSE x \in S : \A y \in S : x <= y

\* .agg({'open': 'first', 'high': 'max', 'low': 'min', 'close': 'last',
\* 'volume': 'sum'}) of the rows of one bin, in row order
RECURSIVE SumVolume(_)
SumVolume(rows) ==
    IF rows = <<>> THEN 0 ELSE rows[1].volume + SumVolume(Tail(rows))

Agg(start, rows) ==
    Candle(start,
           rows[1].open,
           MaxOf({rows[i].high : i \in 1..Len(rows)}),
           MinOf({rows[i].low : i \in 1..Len(rows)}),
           rows[Len(rows)].close,
           SumVolume(rows))

\* one row per bin that holds a row of df, ascending (the bins without rows
\* are all NaN and dropna() removes them)
RECURSIVE AggBins(_, _, _)
AggBins(df, tf, starts) ==
    IF starts = {} THEN <<>>
    ELSE LET s == MinOf(starts)
         IN  <<Agg(s, SelectSeq(df, LAMBDA r : BinStart(r.timestamp, tf) = s))>>
             \o AggBins(df, tf, starts \ {s})

\* resample_data without the market-hours filter
resample_data_unfiltered(df, target_interval) ==
    AggBins(df, target_interval,
            {BinStart(df[i].timestamp, target_interval) : i \in 1..Len(df)})

\* DataProcessor.resample_data(df, target_interval)
resample_data(df, target_interval) ==
    LET kept == filter_market_hours(df)
    IN  AggBins(kept, target_interval,
                {BinStart(kept[i].timestamp, target_interval) : i \in 1..Len(kept)})

\* 1-minute rows tried: day 1, around the open, across bin edges of every
\* period, at and after the close
ResampleRows ==
    {Candle(Combine(1, t), b[1], b[2], b[3], b[4], b[5]) :
        t \in {555, 557, 560, 565, 600, 615, 930, 931},
        b \in {<<2, 2, 2, 2, 1>>, <<1, 3, 1, 3, 2>>, <<3, 3, 1, 1, 1>>}}
\* frames in timestamp order, as fetch and merge leave them
ResampleFrames ==
    {df \in SeqsUpTo(ResampleRows, MaxResampleRows) :
        \A i \in 1..(Len(df) - 1) : df[i].timestamp <= df[i + 1].timestamp}

InitResample ==
    /\ EngineIdle
    /\ DataIdle
    /\ DeployIdle
    /\ \E df \in ResampleFrames, tf \in Timeframes :
          lastOp = [op |-> "input", df |-> df, target_interval |-> tf]
    /\ ret = <<>>

ResampleData ==
    /\ lastOp.op = "input"
    /\ ret' = resample_data(lastOp.df, lastOp.target_interval)
    /\ lastOp' = [lastOp EXCEPT !.op = "resample_data"]
    /\ UNCHANGED <<rmVars, execVars, dataVars, deployVars>>

NextResample == ResampleData

SpecResample == InitResample /\ [][NextResample]_vars

\* ------------------------------------------------------------------------
\* The update calls of the store.  Every operator takes the files and the
\* clock reading and returns the files it leaves and what it returns; the
\* answer of the broker's getCandleData is an argument (<<>>: no data).
\* ------------------------------------------------------------------------
MaxFetchRows == 1   \* cap on the candles in one answer of the broker

Out(fs, value) == [files |-> fs, ret |-> value]

\* save_to_csv of a call that no reader interleaves with
save_to_csv(fs, df, interval) == Put(fs, interval, CsvFile(df))

IsEmpty(opt) == opt = <<>> \/ Len(opt[1]) = 0

\* HistoricalDataManager._is_market_hours(); the days modelled are weekdays
is_market_hours(now) == MarketOpen <= TimeOf(now) /\ TimeOf(now) <= MarketClose

\* DataProcessor.update_resampled_data(symbol, df_1min) with the default
\* timeframes: every timeframe whose resample has rows overwrites its file
update_resampled_data(fs, df_1min) ==
    IF Len(df_1min) = 0 \/ \E i \in 1..Len(df_1min) : ~ValidBar(df_1min[i])
    THEN fs
    ELSE LET df_resampled == [tf \in Timeframes |-> resample_data(df_1min, tf)]
             made == {tf \in Timeframes : df_resampled[tf] # <<>>}
             names == {timeframe_map[tf] : tf \in made}
         IN  [iv \in DOMAIN fs \cup names |->
                 IF iv \in names
                 THEN CsvFile(df_resampled[CHOOSE tf \in made : timeframe_map[tf] = iv])
                 ELSE fs[iv]]

\* HistoricalDataManager.backfill_intraday_data(symbol, token, start, end)
backfill_intraday_data(fs, fetched) ==
    IF IsEmpty(fetched) THEN Out(fs, <<>>)
    ELSE LET existing_df == load_historical_data(fs, "ONE_MINUTE")
             combined_df == IF ~IsEmpty(existing_df)
                            THEN merge_and_deduplicate(existing_df[1], fetched[1])
                            ELSE fetched[1]
         IN  Out(update_resampled_data(save_to_csv(fs, combined_df, "ONE_MINUTE"),
                                       combined_df),
                 <<combined_df>>)

\* HistoricalDataManager.fetch_and_save_historical_data(..., max_lookback=True)
fetch_and_save_historical_data(fs, interval, fetched) ==
    IF fetched = <<>> THEN Out(fs, <<>>)
    ELSE Out(save_to_csv(fs, fetched[1], interval), fetched)

\* HistoricalDataManager.update_historical_data(symbol, token, interval=...)
update_historical_data(fs, interval, now, fetched) ==
    LET existing_df == load_historical_data(fs, interval)
    IN  IF IsEmpty(existing_df)
        THEN fetch_and_save_historical_data(fs, interval, fetched)
        ELSE LET last_timestamp == MaxTimestamp(existing_df[1])
                 new_df == IF fetched = <<>> THEN <<>>
                           ELSE SelectSeq(fetched[1],
                                    LAMBDA r : r.timestamp > last_timestamp)
             IN  IF now - last_timestamp < 1 THEN Out(fs, existing_df)
                 ELSE IF new_df = <<>> THEN Out(fs, existing_df)
                 ELSE LET combined_df == merge_and_deduplicate(existing_df[1], new_df)
                      IN  Out(save_to_csv(fs, combined_df, interval), <<combined_df>>)

\* the part of update_intraday_data after the late-start step
intraday_update(fs, now, fetched) ==
    LET existing_df == load_historical_data(fs, "ONE_MINUTE")
    IN  IF ~is_market_hours(now) THEN Out(fs, existing_df)
        ELSE IF IsEmpty(fetched) THEN Out(fs, existing_df)
        ELSE IF IsEmpty(existing_df)
        THEN Out(save_to_csv(fs, fetched[1], "ONE_MINUTE"), fetched)
        ELSE LET combined_df == merge_and_deduplicate(existing_df[1], fetched[1])
             IN  Out(save_to_csv(fs, combined_df, "ONE_MINUTE"), <<combined_df>>)

\* HistoricalDataManager.update_intraday_data(symbol, token), auto_backfill
\* on; backfilled and fetched are the broker's answers to its two requests
update_intraday_data(fs, now, backfilled, fetched) ==
    LET late == detect_late_start(fs, now)
    IN  IF ~late.needs_backfill THEN intraday_update(fs, now, fetched)
        ELSE LET b == backfill_intraday_data(fs, backfilled)
             IN  IF b.ret # <<>>
                    /\ (late.end_time >= now \/ TimeOf(late.end_time) >= MarketClose)
                 THEN b
                 ELSE intraday_update(b.files, now, fetched)

\* the moments the calls are made at: after the close of day 0, then
\* before, during and after the session of day 1
ClockValues == <<Combine(0, 940), Combine(1, 540), Combine(1, 560), Combine(1, 620),
                 Combine(1, 940)>>

\* what the broker can answer: nothing, or candles in timestamp order
StoreStamps == {Combine(0, 929), Combine(1, 555), Combine(1, 615)}
Fetched ==
    {<<>>} \cup
    {<<df>> : df \in {f \in SeqsUpTo({Flat(t, 1) : t \in StoreStamps}, MaxFetchRows) :
                        /\ f # <<>>
                        /\ \A i \in 1..(Len(f) - 1) :
                              f[i].timestamp < f[i + 1].timestamp}}

\* the store after initialize_instrument_data on day 0: each interval
\* fetched from the broker on its own, here the 1-minute and the 5-minute
\* file, the 5-minute one reaching further back
InitialFiles ==
    {<<>>,
     Put(Put(<<>>, "ONE_MINUTE", CsvFile(<<Flat(Combine(0, 929), 1)>>)),
         "FIVE_MINUTE", CsvFile(<<Flat(Combine(0, 555), 1), Flat(Combine(0, 925), 1)>>))}

InitStore ==
    /\ EngineIdle
    /\ DeployIdle
    /\ files \in InitialFiles
    /\ writer = [pc |-> "idle"]
    /\ clock = ClockValues[1]
    /\ latest_data = <<>>
    /\ feed_file = <<>>
    /\ lastOp = [op |-> "init"]
    /\ ret = <<>>

\* time passes between the calls
Tick ==
    /\ \E i \in 1..(Len(ClockValues) - 1) :
          clock = ClockValues[i] /\ clock' = ClockValues[i + 1]
    /\ lastOp' = [op |-> "tick"]
    /\ UNCHANGED <<rmVars, execVars, deployVars, feedVars, files, writer, ret>>

StoreCall(op, out) ==
    /\ files' = out.files
    /\ ret' = out.ret
    /\ lastOp' = [op |-> op]
    /\ UNCHANGED <<rmVars, execVars, deployVars, feedVars, writer, clock>>

UpdateHistoricalData ==
    \E interval \in {"ONE_MINUTE", "FIVE_MINUTE"}, fetched \in Fetched :
        StoreCall("update_historical_data",
                  update_historical_data(files, interval, clock, fetched))

UpdateIntradayData ==
    \E backfilled \in Fetched, fetched \in Fetched :
        StoreCall("update_intraday_data",
                  update_intraday_data(files, clock, backfilled, fetched))

BackfillIntradayData ==
    \E fetched \in Fetched :
        StoreCall("backfill_intraday_data", backfill_intraday_data(files, fetched))

NextStore ==
    \/ Tick
    \/ UpdateHistoricalData
    \/ UpdateIntradayData
    \/ BackfillIntradayData

SpecStore == InitStore /\ [][NextStore]_vars

\* ------------------------------------------------------------------------
\* Swing levels (strategy_deploy_1.py).  The frame of get_historical_data is
\* the sequence of its closes in the broker's (chronological) order; the
\* date of a bar is its position.  A list of levels is a sequence of
\* records in list order.
\* ------------------------------------------------------------------------
MaxBars == 5        \* cap on the bars of a frame handed to the detector

min_diff == 0       \* SwingLevelsDetector(min_diff=0.0)

\* the 3-bar test without the comparison with the last close
SwingHighAtAnyHeight(df, m) ==
    /\ df[m] > df[m + 1] /\ df[m] - df[m + 1] > min_diff
    /\ df[m] > df[m - 1] /\ df[m] - df[m - 1] > min_diff

\* positions whose close is above both neighbours by more than diff, and
\* above the last close
SwingHighAt(df, m) ==
    /\ df[m] > df[m + 1] /\ df[m] - df[m + 1] > min_diff
    /\ df[m] > df[m - 1] /\ df[m] - df[m - 1] > min_diff
    /\ df[m] > df[Len(df)]

SwingLowAt(df, m) ==
    /\ df[m] < df[m + 1] /\ df[m + 1] - df[m] > min_diff
    /\ df[m] < df[m - 1] /\ df[m - 1] - df[m] > min_diff
    /\ df[m] < df[Len(df)]

\* the levels at the positions ms, in date order
RECURSIVE Levels(_, _)
Levels(df, ms) ==
    IF ms = {} THEN <<>>
    ELSE LET m == CHOOSE k \in ms : \A n \in ms : k <= n
         IN  <<[date |-> m, price |-> df[m]]>> \o Levels(df, ms \ {m})

\* self.buy_level / self.sell_level after the 3-bar loop
swing_highs(df) == Levels(df, {m \in 2..(Len(df) - 1) : SwingHighAt(df, m)})
swing_lows(df) == Levels(df, {m \in 2..(Len(df) - 1) : SwingLowAt(df, m)})

\* the items of a list at the positions idx
RECURSIVE Items(_, _)
Items(list, idx) ==
    IF idx = {} THEN <<>>
    ELSE LET i == CHOOSE k \in idx : \A n \in idx : k <= n
         IN  <<list[i]>> \o Items(list, idx \ {i})

\* the filter with the comparison of prices the other way round
remove_non_virgin_highs_lower_wins(levels) ==
    Items(levels, {i \in 1..Len(levels) :
        ~\E j \in (i + 1)..Len(levels) :
            levels[i].price > levels[j].price /\ levels[i].date < levels[j].date})

\* "Remove non-virgin levels" of get_buy_level: level i goes when a level
\* after it in the list is higher and later
remove_non_virgin_highs(levels) ==
    Items(levels, {i \in 1..Len(levels) :
        ~\E j \in (i + 1)..Len(levels) :
            levels[i].price < levels[j].price /\ levels[i].date < levels[j].date})

\* the same of get_sell_level: level i goes when a later one is lower
remove_non_virgin_lows(levels) ==
    Items(levels, {i \in 1..Len(levels) :
        ~\E j \in (i + 1)..Len(levels) :
            levels[i].price > levels[j].price /\ levels[i].date < levels[j].date})

\* get_buy_level keeping the highest of the levels left
get_buy_level_highest(df) ==
    IF df = <<>> THEN <<>>
    ELSE LET left == remove_non_virgin_highs(swing_highs(df))
         IN  SelectSeq(left, LAMBDA a : \A i \in 1..Len(left) : a.price >= left[i].price)

\* SwingLevelsDetector.get_buy_level(df): of the levels left, those with the
\* lowest price
get_buy_level(df) ==
    IF df = <<>> THEN <<>>
    ELSE LET left == remove_non_virgin_highs(swing_highs(df))
         IN  SelectSeq(left, LAMBDA a : \A i \in 1..Len(left) : a.price <= left[i].price)

\* SwingLevelsDetector.get_sell_level(df): those with the highest price
get_sell_level(df) ==
    IF df = <<>> THEN <<>>
    ELSE LET left == remove_non_virgin_lows(swing_lows(df))
         IN  SelectSeq(left, LAMBDA a : \A i \in 1..Len(left) : a.price >= left[i].price)

Closes == 1..3

InitDetect ==
    /\ EngineIdle
    /\ DataIdle
    /\ DeployIdle
    /\ \E df \in SeqsUpTo(Closes, MaxBars) : lastOp = [op |-> "input", df |-> df]
    /\ ret = <<>>

\* candidates and virgin record self.buy_level after the 3-bar loop and
\* after the removal of the non-virgin levels
GetBuyLevel ==
    /\ lastOp.op = "input"
    /\ ret' = get_buy_level(lastOp.df)
    /\ lastOp' = [op |-> "get_buy_level", df |-> lastOp.df,
                  candidates |-> swing_highs(lastOp.df),
                  virgin |-> remove_non_virgin_highs(swing_highs(lastOp.df))]
    /\ UNCHANGED <<rmVars, execVars, dataVars, deployVars>>

GetSellLevel ==
    /\ lastOp.op = "input"
    /\ ret' = get_sell_level(lastOp.df)
    /\ lastOp' = [op |-> "get_sell_level", df |-> lastOp.df,
                  candidates |-> swing_lows(lastOp.df),
                  virgin |-> remove_non_virgin_lows(swing_lows(lastOp.df))]
    /\ UNCHANGED <<rmVars, execVars, dataVars, deployVars>>

NextDetect ==
    \/ GetBuyLevel
    \/ GetSellLevel

SpecDetect == InitDetect /\ [][NextDetect]_vars

\* ------------------------------------------------------------------------
\* TradingStrategy.swing_levels: symbol -> the stored levels.  Levels with
\* the entry buffer (0.1%) are in thousandths of a price unit; None is <<>>.
\* ------------------------------------------------------------------------
StrategySymbols == {"NIFTY"}      \* the keys of self.tokens

NoLevels ==
    [swing_high |-> <<>>, buy_level |-> <<>>, swing_high_timestamp |-> <<>>,
     swing_low |-> <<>>, sell_level |-> <<>>, swing_low_timestamp |-> <<>>,
     last_updated |-> <<>>]

\* TradingStrategy.update_swing_levels(symbol) for a symbol with a token;
\* df is what get_historical_data returned (<<>>: None)
update_swing_levels(levels, symbol, df, now) ==
    IF df = <<>> \/ Len(df[1]) = 0 THEN levels
    ELSE LET old == IF symbol \in DOMAIN levels THEN levels[symbol] ELSE NoLevels
             buy_levels == get_buy_level(df[1])
             sell_levels == get_sell_level(df[1])
             a == IF buy_levels # <<>>
                  THEN [old EXCEPT
                          !.swing_high = <<buy_levels[1].price>>,
                          !.buy_level = <<buy_levels[1].price * 1001>>,
                          !.swing_high_timestamp = <<buy_levels[1].date>>]
                  ELSE old
             b == IF sell_levels # <<>>
                  THEN [a EXCEPT
                          !.swing_low = <<sell_levels[1].price>>,
                          !.sell_level = <<sell_levels[1].price * 999>>,
                          !.swing_low_timestamp = <<sell_levels[1].date>>]
                  ELSE a
         IN  Put(levels, symbol, [b EXCEPT !.last_updated = <<now>>])

\* the frames of the update cycles: room for one swing high or low, or
\* two with one more bar

InitSwing ==
    /\ EngineIdle
    /\ DataIdle
    /\ DeployIdle
    /\ lastOp = [op |-> "init"]
    /\ ret = <<>>

\* one symbol's turn in an update cycle, with the broker's candles
UpdateSwingLevels ==
    \E symbol \in StrategySymbols, df \in {<<>>} \cup {<<f>> : f \in SeqsUpTo(Closes, MaxBars - 2)} :
        /\ swing_levels' = update_swing_levels(swing_levels, symbol, df, clock)
        /\ lastOp' = [op |-> "update_swing_levels", symbol |-> symbol, df |-> df]
        /\ ret' = <<>>
        /\ UNCHANGED <<rmVars, execVars, dataVars, live_file, live_data, broker_orders,
                       strategy_positions>>

NextSwing == UpdateSwingLevels

SpecSwing == InitSwing /\ [][NextSwing]_vars

\* ------------------------------------------------------------------------
\* The live feed snapshot and the orders of strategy_deploy_1.py.
\* live_file is the snapshot file: whether it exists, the age of its mtime in
\* seconds, and the ltp it holds for the token of the symbol (<<>>: the JSON
\* has no entry for the token); a blank file has no JSON at all.
\* ------------------------------------------------------------------------
MaxPlaced == 2          \* cap on the orders handed to the broker

max_age_seconds == 60   \* LiveDataFeed.is_data_fresh(max_age_seconds=60)
MaxAge == 90            \* ages beyond the threshold are all alike


\* the snapshot file: "blank" once opened for writing, "partial" while
\* json.dump is under way, "json" when the dump is complete
Snapshot(age, ltp) == [exists |-> TRUE, age |-> age, content |-> "json", ltp |-> ltp]
Unfinished(age, content) == [exists |-> TRUE, age |-> age, content |-> content, ltp |-> <<>>]

\* LiveDataFeed.is_data_fresh()
is_data_fresh(lf) == lf.exists /\ lf.age <= max_age_seconds

\* what get_live_price leaves in self.live_data: the content of the file, or
\* the content read earlier when the file is missing, blank or unparsable
read_live_data(lf, ld) == IF lf.exists /\ lf.content = "json" THEN lf.ltp ELSE ld

\* LiveDataFeed.get_live_price(token): the ltp in self.live_data, or None
\* (also None when json.loads raises)
get_live_price(lf, ld) ==
    IF lf.exists /\ lf.content = "partial" THEN <<>> ELSE read_live_data(lf, ld)

\* TradingStrategy.place_order(symbol, transaction_type) with the API
\* connected and a token for the symbol: the orders handed to placeOrder and
\* the value returned (TRUE stands for the order id); accepted is the
\* broker's answer
place_order(lf, ld, orders, symbol, transaction_type, accepted) ==
    LET current_price == get_live_price(lf, ld)
    IN  IF current_price = <<>> THEN [orders |-> orders, ret |-> FALSE]
        ELSE [orders |-> Append(orders, [tradingsymbol |-> symbol,
                                         transactiontype |-> transaction_type,
                                         ordertype |-> "MARKET"]),
              ret |-> accepted]

InitLive ==
    /\ EngineIdle
    /\ DataIdle
    /\ DeployIdle
    /\ lastOp = [op |-> "init"]
    /\ ret = <<>>

\* feed.py on_data: open(live_data_file, 'w') truncates the snapshot
FeedOpen ==
    /\ live_file' = Unfinished(0, "blank")
    /\ lastOp' = [op |-> "feed_open"]
    /\ UNCHANGED <<rmVars, execVars, dataVars, swing_levels, live_data, broker_orders,
                   strategy_positions, ret>>

\* feed.py on_data: json.dump writes the prices, in one piece or in two
FeedDump ==
    /\ live_file.exists
    /\ live_file.content \in {"blank", "partial"}
    /\ \/ \E ltp \in {<<>>} \cup {<<p>> : p \in {100, 101}} :
             live_file' = Snapshot(0, ltp)
       \/ /\ live_file.content = "blank"
          /\ live_file' = Unfinished(0, "partial")
    /\ lastOp' = [op |-> "feed_dump"]
    /\ UNCHANGED <<rmVars, execVars, dataVars, swing_levels, live_data, broker_orders,
                   strategy_positions, ret>>

\* validate_feed_file creates the file the feed has not written yet
ValidateFeedFile ==
    /\ ~live_file.exists
    /\ live_file' = Snapshot(0, <<>>)
    /\ lastOp' = [op |-> "validate_feed_file"]
    /\ UNCHANGED <<rmVars, execVars, dataVars, swing_levels, live_data, broker_orders,
                   strategy_positions, ret>>

\* time passes and the feed does not write
FeedSilent ==
    /\ live_file.exists
    /\ live_file.age < MaxAge
    /\ live_file' = [live_file EXCEPT !.age = @ + 30]
    /\ lastOp' = [op |-> "wait"]
    /\ UNCHANGED <<rmVars, execVars, dataVars, swing_levels, live_data, broker_orders,
                   strategy_positions, ret>>

\* buy_market / sell_market: place_order
PlaceOrder ==
    \E symbol \in StrategySymbols, transaction_type \in {"BUY", "SELL"},
       accepted \in BOOLEAN :
        LET out == place_order(live_file, live_data, broker_orders, symbol,
                               transaction_type, accepted)
        IN  /\ Len(broker_orders) < MaxPlaced
            /\ live_data' = read_live_data(live_file, live_data)
            /\ broker_orders' = out.orders
            /\ ret' = out.ret
            /\ lastOp' = [op |-> "place_order",
                          current_price |-> get_live_price(live_file, live_data),
                          fresh |-> is_data_fresh(live_file),
                          sent |-> out.orders # broker_orders]
            /\ UNCHANGED <<rmVars, execVars, dataVars, swing_levels, live_file,
                             strategy_positions>>

\* one pass of the loop of run_strategy: on a full minute it warns when the
\* snapshot is stale
RunStrategyPass ==
    \E full_minute \in BOOLEAN :
        /\ lastOp' = [op |-> "run_strategy",
                      warning |-> full_minute /\ ~is_data_fresh(live_file)]
        /\ UNCHANGED <<rmVars, execVars, dataVars, deployVars, ret>>

NextLive ==
    \/ FeedOpen
    \/ FeedDump
    \/ ValidateFeedFile
    \/ FeedSilent
    \/ PlaceOrder
    \/ RunStrategyPass

SpecLive == InitLive /\ [][NextLive]_vars

\* ------------------------------------------------------------------------
\* open_position directly followed by close_position of the same symbol
\* ------------------------------------------------------------------------
\* RiskManager.open_position on a flat book; lastOp keeps the arguments and
\* the money figures the call started from
TripOpen ==
    \E s \in Symbols, sd \in Sides, q \in {1, 10}, entry \in {100, 120} :
        /\ lastOp.op \in {"init", "close_position"}
        /\ Len(trade_history) < MaxTrades
        /\ LET res == open_position(RM, s, sd, q, entry, <<>>)
           IN  /\ SetRM(res.rm)
               /\ ret' = res.ret
        /\ lastOp' = [op |-> "open_position", symbol |-> s, side |-> sd,
                      quantity |-> q, entry_price |-> entry,
                      portfolio_value |-> portfolio_value, daily_pnl |-> daily_pnl]
        /\ UNCHANGED <<execVars, dataVars, deployVars>>

\* RiskManager.close_position of the position just opened
TripClose ==
    \E x \in {<<>>, <<95>>, <<100>>, <<120>>} :
        /\ lastOp.op = "open_position"
        /\ LET res == close_position(RM, lastOp.symbol, x)
           IN  /\ SetRM(res.rm)
               /\ ret' = res.ret
        /\ lastOp' = [op |-> "close_position", opened |-> lastOp,
                      exit_price |-> IF x = <<>> THEN lastOp.entry_price ELSE x[1]]
        /\ UNCHANGED <<execVars, dataVars, deployVars>>

NextTrip ==
    \/ TripOpen
    \/ TripClose

SpecTrip == Init /\ [][NextTrip]_vars

\* ------------------------------------------------------------------------
\* The engine with the book close to max_positions
\* ------------------------------------------------------------------------
\* the state after entries on MAX_POSITIONS - 2 or MAX_POSITIONS - 1 other
\* symbols, one unit at 100 each
InitFull ==
    /\ \E n \in {MAX_POSITIONS - 2, MAX_POSITIONS - 1} :
          /\ positions = Held(n)
          /\ portfolio_value = MAX_POSITION_SIZE - 100 * n
    /\ daily_start_value = MAX_POSITION_SIZE
    /\ daily_pnl = 0
    /\ peak_portfolio_value = MAX_POSITION_SIZE
    /\ max_drawdown = 0
    /\ trade_history = <<>>
    /\ daily_loss_limit_hit = FALSE
    /\ portfolio_stop_active = FALSE
    /\ trading_mode \in {"live", "paper"}
    /\ current_position = [s \in {"NIFTY"} |-> "none"]
    /\ pending_orders = {}
    /\ completed_orders = {}
    /\ is_monitoring = FALSE
    /\ broker_book = <<>>
    /\ pc = "idle"
    /\ cur_sig = Sig("", "HOLD", 100, 100, <<>>)
    /\ cur_qty = 0
    /\ attempt = 0
    /\ mon_pc = "none"
    /\ scan_size = 0
    /\ scan_done = {}
    /\ orders_to_remove = {}
    /\ scan_failed = {}
    /\ entry_orders = {}
    /\ sig_pre = [portfolio_value |-> MAX_POSITION_SIZE, had_position |-> FALSE]
    /\ lastOp = [op |-> "init"]
    /\ ret = TRUE
    /\ DataIdle
    /\ DeployIdle

\* process_signal with entries on a registered symbol, on a symbol already
\* held and on new symbols
ProcessSignalFull ==
    \E sig \in {Sig(s, "BUY", 100, 100, <<>>) : s \in {"NIFTY", "S1", "S10", "S11"}}
               \cup {Sig("NIFTY", "SELL", 100, 100, <<120>>),
                     Sig("NIFTY", "EXIT_LONG", 120, 100, <<>>)} :
        ProcessSignalStep(sig)

\* risk_manager.update_positions(price_updates)
UpdatePositionsFull ==
    \E pm \in UNION {[S -> {95, 100}] : S \in SUBSET {"NIFTY", "S1"}} :
        /\ pc = "idle"
        /\ Len(trade_history) < MaxTrades
        /\ SetRM(update_positions(RM, pm))
        /\ ret' = TRUE
        /\ lastOp' = [op |-> "update_positions"]
        /\ UNCHANGED <<execVars, dataVars, deployVars>>

\* risk_manager.close_position(symbol)
ClosePositionFull ==
    \E s \in {"NIFTY", "S1"} :
        /\ pc = "idle"
        /\ Len(trade_history) < MaxTrades
        /\ LET res == close_position(RM, s, <<>>)
           IN  /\ SetRM(res.rm)
               /\ ret' = res.ret
        /\ lastOp' = [op |-> "close_position", symbol |-> s]
        /\ UNCHANGED <<execVars, dataVars, deployVars>>

NextFull ==
    \/ ProcessSignalFull
    \/ PlaceAttempt
    \/ UpdatePositionsFull
    \/ ClosePositionFull

SpecFull == InitFull /\ [][NextFull]_vars

\* ------------------------------------------------------------------------
\* TradingStrategy.positions and the trailing stop (strategy_deploy_1.py).
\* Prices are in thousandths, as the entry levels above.
\* ------------------------------------------------------------------------
FlatPosition == [position |-> 0, entry_price |-> <<>>, stop_loss |-> <<>>]

\* swing_data.get(key) when it is neither None nor 0
Level(levels, symbol, key) ==
    IF symbol \in DOMAIN levels /\ levels[symbol][key] # <<>> /\ levels[symbol][key][1] # 0
    THEN levels[symbol][key] ELSE <<>>

\* update_trailing_stop moving the stop to the level whatever side it is on
update_trailing_stop_follows(pos, levels, symbol) ==
    IF symbol \notin DOMAIN pos \/ symbol \notin DOMAIN levels \/ pos[symbol].position = 0
    THEN pos
    ELSE LET position == pos[symbol]
             sell_level == Level(levels, symbol, "sell_level")
             buy_level == Level(levels, symbol, "buy_level")
         IN  IF position.position = 1 /\ sell_level # <<>>
             THEN [pos EXCEPT ![symbol].stop_loss = sell_level]
             ELSE IF position.position = -1 /\ buy_level # <<>>
             THEN [pos EXCEPT ![symbol].stop_loss = buy_level]
             ELSE pos

\* TradingStrategy.update_trailing_stop(symbol)
update_trailing_stop(pos, levels, symbol) ==
    IF symbol \notin DOMAIN pos \/ symbol \notin DOMAIN levels \/ pos[symbol].position = 0
    THEN pos
    ELSE LET position == pos[symbol]
             sell_level == Level(levels, symbol, "sell_level")
             buy_level == Level(levels, symbol, "buy_level")
         IN  IF position.position = 1 /\ sell_level # <<>>
             THEN IF sell_level[1] > position.stop_loss[1]
                  THEN [pos EXCEPT ![symbol].stop_loss = sell_level]
                  ELSE pos
             ELSE IF position.position = -1 /\ buy_level # <<>>
             THEN IF buy_level[1] < position.stop_loss[1]
                  THEN [pos EXCEPT ![symbol].stop_loss = buy_level]
                  ELSE pos
             ELSE pos

\* TradingStrategy.enter_position(symbol, direction, current_price) once
\* place_order has returned an order id
enter_position(pos, levels, symbol, direction, current_price) ==
    LET sell_level == Level(levels, symbol, "sell_level")
        buy_level == Level(levels, symbol, "buy_level")
    IN  Put(pos, symbol,
            IF direction = "LONG"
            THEN [position |-> 1, entry_price |-> <<current_price>>,
                  stop_loss |-> IF sell_level # <<>> THEN sell_level
                                ELSE <<(current_price * 99) \div 100>>]
            ELSE [position |-> -1, entry_price |-> <<current_price>>,
                  stop_loss |-> IF buy_level # <<>> THEN buy_level
                                ELSE <<(current_price * 101) \div 100>>])

\* the strategy started, the feed has written a price for the symbol
InitTrail ==
    /\ EngineIdle
    /\ DataIdle
    /\ swing_levels = <<>>
    /\ live_file = Snapshot(0, <<100>>)
    /\ live_data = <<>>
    /\ broker_orders = <<>>
    /\ strategy_positions = <<>>
    /\ lastOp = [op |-> "init"]
    /\ ret = <<>>

\* update_swing_levels(symbol) with the broker's candles
UpdateLevels ==
    \E symbol \in StrategySymbols, df \in SeqsUpTo(Closes, 3) :
        /\ swing_levels' = update_swing_levels(swing_levels, symbol, <<df>>, clock)
        /\ lastOp' = [op |-> "update_swing_levels", symbol |-> symbol]
        /\ ret' = <<>>
        /\ UNCHANGED <<rmVars, execVars, dataVars, live_file, live_data, broker_orders,
                       strategy_positions>>

\* enter_position: place_order, then the position and its first stop
EnterPosition ==
    \E symbol \in StrategySymbols, direction \in {"LONG", "SHORT"},
       current_price \in {1000, 3000}, accepted \in BOOLEAN :
        LET out == place_order(live_file, live_data, broker_orders, symbol,
                               IF direction = "LONG" THEN "BUY" ELSE "SELL", accepted)
        IN  /\ Len(broker_orders) < MaxPlaced
            /\ live_data' = read_live_data(live_file, live_data)
            /\ broker_orders' = out.orders
            /\ strategy_positions' =
                  IF out.ret
                  THEN enter_position(strategy_positions, swing_levels, symbol,
                                      direction, current_price)
                  ELSE strategy_positions
            /\ ret' = out.ret
            /\ lastOp' = [op |-> "enter_position", symbol |-> symbol]
            /\ UNCHANGED <<rmVars, execVars, dataVars, swing_levels, live_file>>

\* exit_position: place_order for the opposite side, then the position reset
ExitPosition ==
    \E symbol \in StrategySymbols, accepted \in BOOLEAN :
        IF symbol \notin DOMAIN strategy_positions
           \/ strategy_positions[symbol].position = 0
        THEN /\ ret' = FALSE
             /\ lastOp' = [op |-> "exit_position", symbol |-> symbol]
             /\ UNCHANGED <<rmVars, execVars, dataVars, deployVars>>
        ELSE
        LET out == place_order(live_file, live_data, broker_orders, symbol,
                               IF strategy_positions[symbol].position = 1
                               THEN "SELL" ELSE "BUY", accepted)
        IN  /\ Len(broker_orders) < MaxPlaced
            /\ live_data' = read_live_data(live_file, live_data)
            /\ broker_orders' = out.orders
            /\ strategy_positions' =
                  IF out.ret
                  THEN [strategy_positions EXCEPT ![symbol] = FlatPosition]
                  ELSE strategy_positions
            /\ ret' = out.ret
            /\ lastOp' = [op |-> "exit_position", symbol |-> symbol]
            /\ UNCHANGED <<rmVars, execVars, dataVars, swing_levels, live_file>>

\* update_trailing_stop(symbol)
UpdateTrailingStop ==
    \E symbol \in StrategySymbols :
        /\ strategy_positions' =
              update_trailing_stop(strategy_positions, swing_levels, symbol)
        /\ lastOp' = [op |-> "update_trailing_stop", symbol |-> symbol,
                      stop_loss |-> IF symbol \in DOMAIN strategy_positions
                                    THEN strategy_positions[symbol].stop_loss ELSE <<>>]
        /\ ret' = <<>>
        /\ UNCHANGED <<rmVars, execVars, dataVars, swing_levels, live_file, live_data,
                       broker_orders>>

NextTrail ==
    \/ UpdateLevels
    \/ EnterPosition
    \/ ExitPosition
    \/ UpdateTrailingStop

SpecTrail == InitTrail /\ [][NextTrail]_vars

\* ------------------------------------------------------------------------
\* The live-feed snapshot of modules/data_module: feed_process.py writes it,
\* live_feed.py reads it
\* ------------------------------------------------------------------------
MaxTicks == 2
TickSymbols == {"NIFTY", "BANKNIFTY"}
TickPrices == {100, 200}

\* JSON values as json.dump writes and json.load returns them: a list keeps
\* its items in order, an object is a dict from keys to values
JsonList(items) == [type |-> "list", items |-> items]
JsonDict(fields) == [type |-> "dict", fields |-> fields]

\* dict.get(key): <<>> is None
DictGet(d, key) == IF key \in DOMAIN d.fields THEN <<d.fields[key]>> ELSE <<>>

\* one tick of the websocket message
TickOf(symbol, price) ==
    JsonDict([trading_symbol |-> symbol, last_traded_price |-> price])

Ticks == {TickOf(s, p) : s \in TickSymbols, p \in TickPrices}

\* WebSocketFeed.write_to_file: nothing is written while latest_data is
\* empty; otherwise output_data goes to the .tmp file, which then replaces
\* feed_file in one step
write_to_file(latest, file, now) ==
    IF latest = <<>>
    THEN file
    ELSE <<JsonDict([timestamp |-> now, data |-> JsonList(latest)])>>

\* LiveDataFeed.get_live_price of live_feed.py; symbol is <<>> for None.
\* `for tick in data` over a dict yields its keys, and str has no get: the
\* AttributeError is caught and None returned
live_feed_get_live_price(file, symbol) ==
    IF file = <<>>
    THEN <<>>
    ELSE LET data == file[1]
             empty == IF data.type = "list" THEN data.items = <<>>
                      ELSE DOMAIN data.fields = {}
         IN  IF empty
             THEN <<>>
             ELSE IF symbol # <<>>
             THEN IF data.type = "list"
                  THEN LET hits == {i \in 1..Len(data.items) :
                                       DictGet(data.items[i], "trading_symbol") = symbol}
                       IN  IF hits = {}
                           THEN <<>>
                           ELSE DictGet(data.items[CHOOSE i \in hits :
                                                       \A j \in hits : i <= j],
                                        "last_traded_price")
                  ELSE <<>>
             ELSE IF data.type = "list"
                  THEN DictGet(data.items[1], "last_traded_price")
                  ELSE DictGet(data, "last_traded_price")

InitFeed ==
    /\ EngineIdle
    /\ DataIdle
    /\ DeployIdle
    /\ lastOp = [op |-> "init"]
    /\ ret = <<>>

\* WebSocketFeed.on_data: the message becomes latest_data, and is written
\* once write_interval has passed since the last write
OnData ==
    \E message \in SeqsUpTo(Ticks, MaxTicks), due \in BOOLEAN :
        /\ latest_data' = message
        /\ feed_file' = IF due THEN write_to_file(message, feed_file, clock)
                        ELSE feed_file
        /\ lastOp' = [op |-> "on_data", wrote |-> due /\ message # <<>>]
        /\ ret' = <<>>
        /\ UNCHANGED <<rmVars, execVars, deployVars, files, writer, clock>>

\* WebSocketFeed.close: the final data is written
CloseFeed ==
    /\ feed_file' = write_to_file(latest_data, feed_file, clock)
    /\ lastOp' = [op |-> "close", wrote |-> latest_data # <<>>]
    /\ ret' = <<>>
    /\ UNCHANGED <<rmVars, execVars, deployVars, files, writer, clock, latest_data>>

\* the trading process asks for a price at any moment
GetLivePrice ==
    \E symbol \in {<<>>} \cup {<<s>> : s \in TickSymbols} :
        /\ ret' = live_feed_get_live_price(feed_file, symbol)
        /\ lastOp' = [op |-> "get_live_price", symbol |-> symbol]
        /\ UNCHANGED <<rmVars, execVars, deployVars, dataVars>>

NextFeed ==
    \/ OnData
    \/ CloseFeed
    \/ GetLivePrice

SpecFeed == InitFeed /\ [][NextFeed]_vars

TypeOK ==
    /\ \A p \in positions : p.symbol \in Symbols /\ p.quantity > 0
    /\ Len(trade_history) <= MaxTrades
    /\ attempt <= MAX_ORDER_RETRY
    /\ OrderIds(pending_orders) \cup OrderIds(completed_orders) \subseteq 1..MaxOrders

\* ------------------------------------------------------------------------
\* Properties of the RiskManager API (SpecRM)
\* ------------------------------------------------------------------------
PositionsOf(d, s) == {p \in d : p.symbol = s}

\* the trade records appended by a step
Appended == SubSeq(trade_history', Len(trade_history) + 1, Len(trade_history'))
HistoryGrows ==
    /\ Len(trade_history') >= Len(trade_history)
    /\ SubSeq(trade_history', 1, Len(trade_history)) = trade_history

\* C1: at most one open Position per symbol after every call; open_position
\* on a symbol leaves exactly one Position for it, with the side, quantity,
\* entry and stop of that call, and when the symbol already had a Position
\* that one was closed at its current price and archived to trade history.
C1_PositionSingleton ==
    [][ /\ \A s \in Symbols : Cardinality(PositionsOf(positions', s)) <= 1
        /\ (lastOp'.op = "open_position" /\ ret') =>
             LET s == lastOp'.symbol
                 a == lastOp'.args
             IN  /\ Cardinality(PositionsOf(positions', s)) = 1
                 /\ \A p \in PositionsOf(positions', s) :
                       /\ p.side = a.side
                       /\ p.quantity = a.quantity
                       /\ p.entry_price = a.entry_price
                       /\ a.stop_loss # <<>> => p.stop_loss = a.stop_loss[1]
                 /\ \A t \in Symbols \ {s} :
                       PositionsOf(positions', t) = PositionsOf(positions, t)
                 /\ HistoryGrows
                 /\ IF lastOp'.replaced
                    THEN /\ Len(Appended) = 1
                         /\ \A old \in PositionsOf(positions, s) :
                               /\ Appended[1].symbol = s
                               /\ Appended[1].side = old.side
                               /\ Appended[1].quantity = old.quantity
                               /\ Appended[1].entry_price = old.entry_price
                               /\ Appended[1].exit_price = old.current_price
                    ELSE Appended = <<>>
      ]_vars

\* a second open_position replaced a Position of the other side and quantity
C1_Witness ==
    /\ lastOp.op = "open_position"
    /\ ret
    /\ lastOp.replaced
    /\ Len(trade_history) >= 1
    /\ trade_history[Len(trade_history)].symbol = lastOp.symbol
    /\ trade_history[Len(trade_history)].side # lastOp.args.side
    /\ trade_history[Len(trade_history)].quantity # lastOp.args.quantity

\* the value of daily_pnl that update_positions hands to _check_portfolio_limits
DailyPnlAtLimits(pm) ==
    update_risk_metrics(update_loop(RM, pm, DOMAIN pm)).daily_pnl

\* C6: when update_positions reaches the portfolio limits with
\* daily_pnl <= -max_daily_loss and the daily-loss breaker not tripped, it
\* returns with the breaker tripped and no Position open.
C6_DailyLossBreaker ==
    [][ (/\ lastOp'.op = "update_positions"
         /\ ~daily_loss_limit_hit
         /\ DailyPnlAtLimits(lastOp'.price_updates) <= -MAX_DAILY_LOSS)
        => (daily_loss_limit_hit' /\ positions' = {})
      ]_vars

\* the breaker tripped in an update that stopped out one symbol and then
\* force-closed the Position of the other
C6_Witness ==
    /\ lastOp.op = "update_positions"
    /\ ~lastOp.hit0
    /\ daily_loss_limit_hit
    /\ positions = {}
    /\ Cardinality(DOMAIN lastOp.price_updates) = 1
    /\ Len(trade_history) = lastOp.len0 + 2
    /\ daily_pnl <= -MAX_DAILY_LOSS

\* C7: the daily-loss breaker stays tripped through every call but
\* reset_daily_stats, which clears it; while it is tripped
\* calculate_position_size returns 0.
C7_BreakerLatch ==
    [][ /\ (daily_loss_limit_hit /\ lastOp'.op # "reset_daily_stats")
              => daily_loss_limit_hit'
        /\ lastOp'.op = "reset_daily_stats" => ~daily_loss_limit_hit'
        /\ daily_loss_limit_hit' =>
              \A s \in Symbols, sd \in Sides, e \in UpdatePrices, sl \in UpdatePrices :
                  calculate_position_size(RM', s, e, sl, sd) = 0
      ]_vars

\* tripped, and a later update cycle has taken daily_pnl back above the limit
C7_Witness ==
    /\ daily_loss_limit_hit
    /\ lastOp.op = "update_positions"
    /\ lastOp.hit0
    /\ Len(trade_history) > lastOp.len0
    /\ daily_pnl > -MAX_DAILY_LOSS

\* C8: after reset_daily_stats both breaker flags are false.
C8_ResetClearsBothBreakers ==
    lastOp.op = "reset_daily_stats" =>
        (~daily_loss_limit_hit /\ ~portfolio_stop_active)

StopCondition(p, price) ==
    \/ p.side = "long" /\ price <= p.stop_loss
    \/ p.side = "short" /\ price >= p.stop_loss
TargetCondition(p, price) ==
    \/ p.side = "long" /\ price >= p.take_profit
    \/ p.side = "short" /\ price <= p.take_profit
AppendedFor(s) == SelectSeq(Appended, LAMBDA t : t.symbol = s)

\* C9: one update_positions call closes a symbol at most once, also when a
\* breaker flattens in the same call; a symbol whose incoming price meets the
\* stop condition is closed at its stop (whether or not the target condition
\* holds too), one that meets only the target condition at its target.
C9_OneClosePerCycle ==
    [][ lastOp'.op = "update_positions" =>
          /\ HistoryGrows
          /\ \A s \in Symbols :
                /\ Len(AppendedFor(s)) <= 1
                /\ \A p \in PositionsOf(positions, s) :
                      s \in DOMAIN lastOp'.price_updates =>
                         LET price == lastOp'.price_updates[s]
                         IN  /\ StopCondition(p, price) =>
                                  /\ Len(AppendedFor(s)) = 1
                                  /\ AppendedFor(s)[1].exit_price = p.stop_loss
                             /\ (~StopCondition(p, price) /\ TargetCondition(p, price)) =>
                                  /\ Len(AppendedFor(s)) = 1
                                  /\ AppendedFor(s)[1].exit_price = p.take_profit
      ]_vars

\* one update closed a Position whose price met both the stop and the target
\* condition, and the drawdown breaker flattened the other symbol
C9_Witness ==
    /\ lastOp.op = "update_positions"
    /\ ~lastOp.stop0
    /\ portfolio_stop_active
    /\ Cardinality(DOMAIN lastOp.price_updates) = 2
    /\ Len(trade_history) = lastOp.len0 + 2
    /\ \E i \in {lastOp.len0 + 1, lastOp.len0 + 2} :
          /\ trade_history[i].exit_price = trade_history[i].entry_price
          /\ trade_history[i].quantity = 10
          /\ lastOp.price_updates[trade_history[i].symbol] = trade_history[i].entry_price

\* C10 as claimed: close_position on a symbol without a Position changes
\* nothing and returns true.
C10_NoPositionReturnsTrue ==
    [][ (lastOp'.op = "close_position" /\ ~Has(positions, lastOp'.symbol))
        => (ret' = TRUE /\ UNCHANGED rmVars)
      ]_vars

\* C10, amended: close_position on a symbol without a Position changes
\* nothing (positions, portfolio_value, daily_pnl, trade history) and returns
\* false.
C10_NoPositionReturnsFalse ==
    [][ (lastOp'.op = "close_position" /\ ~Has(positions, lastOp'.symbol))
        => (ret' = FALSE /\ UNCHANGED rmVars)
      ]_vars

\* close_position was called for a symbol without a Position while the
\* other symbol had one
C10_Witness ==
    /\ lastOp.op = "close_position"
    /\ ~ret
    /\ ~Has(positions, lastOp.symbol)
    /\ positions # {}

\* ------------------------------------------------------------------------
\* Properties of the execution engine (Spec)
\* ------------------------------------------------------------------------
\* process_signal has returned from an entry whose broker calls all failed
EntryPlacementFailed ==
    /\ pc = "idle"
    /\ lastOp.op = "place_order"
    /\ ~lastOp.ok
    /\ cur_sig.signal_type \in EntrySignalTypes

\* C2: in live mode, when every broker placement attempt of an entry has
\* failed, process_signal returns false and RiskManager holds no Position
\* for the signal's symbol.
C2_OrderRollback ==
    EntryPlacementFailed =>
        /\ trading_mode = "live"
        /\ ret = FALSE
        /\ PositionsOf(positions, cur_sig.symbol) = {}

\* all attempts failed for an entry on a symbol that held a Position before
C2_Witness ==
    /\ EntryPlacementFailed
    /\ sig_pre.had_position
    /\ ~Has(positions, cur_sig.symbol)

\* C3: an entry whose computed quantity is 0 opens no Position and makes no
\* broker call; while the entry's order is being placed (every broker
\* place_order call of an entry) the Position of that entry is already in
\* RiskManager.
C3_RiskStateFirst ==
    [][ /\ \A sig \in Signals :
              (/\ ProcessSignalStep(sig)
               /\ validate_signal(sig)
               /\ sig.signal_type \in EntrySignalTypes
               /\ calculate_position_size(RM, sig.symbol, sig.price,
                                          EntryStop(sig), EntrySide(sig)) = 0)
              => /\ positions' = positions
                 /\ pc' = "idle"
                 /\ ret' = FALSE
                 /\ broker_book' = broker_book
                 /\ pending_orders' = pending_orders
        /\ pc' = "entry" =>
              \E p \in positions' :
                 /\ p.symbol = cur_sig'.symbol
                 /\ p.side = EntrySide(cur_sig')
                 /\ p.quantity = cur_qty'
                 /\ p.entry_price = cur_sig'.price
        /\ (pc = "entry" /\ lastOp'.op = "place_order"
              /\ Cardinality(DOMAIN broker_book') > Cardinality(DOMAIN broker_book))
              => Has(positions, cur_sig.symbol)
      ]_vars

\* an entry order is on its retry after a failed broker call, its Position
\* already open
C3_Witness ==
    /\ pc = "entry"
    /\ attempt >= 1
    /\ Has(positions, cur_sig.symbol)

\* C4: after an entry whose order placement failed and whose Position was
\* rolled back, portfolio_value equals its value before the entry signal
\* was processed.
C4_RollbackRestoresValue ==
    EntryPlacementFailed => portfolio_value = sig_pre.portfolio_value

\* C5: no Position stays tracked for an entry order that the broker has
\* reported REJECTED or CANCELLED and the monitor has reconciled.
C5_RejectedEntryRolledBack ==
    \A o \in completed_orders :
        (o.order_id \in entry_orders /\ o.status \in {"REJECTED", "CANCELLED"}
            /\ broker_book[o.order_id] \in {"REJECTED", "CANCELLED"})
        => ~\E p \in positions :
               /\ p.symbol = o.symbol
               /\ p.quantity = o.quantity
               /\ p.entry_price = o.price

\* ------------------------------------------------------------------------
\* Properties of calculate_position_size (SpecCalc)
\* ------------------------------------------------------------------------
Sized == lastOp.op = "calculate_position_size"

\* C11: calculate_position_size returns 0 and changes no state whenever the
\* number of open positions is >= max_positions, or the daily-loss breaker
\* is tripped, or stop = entry.
C11_RiskRefusal ==
    [][ (/\ lastOp'.op = "calculate_position_size"
         /\ \/ Cardinality(positions) >= MAX_POSITIONS
            \/ daily_loss_limit_hit
            \/ lastOp'.stop_loss = lastOp'.entry_price)
        => (ret' = 0 /\ UNCHANGED <<rmVars, execVars>>) ]_vars

\* a refused sizing with exactly max_positions positions open, the breaker
\* not tripped and a valid stop
C11_Witness ==
    /\ Sized
    /\ Cardinality(positions) = MAX_POSITIONS
    /\ ~daily_loss_limit_hit
    /\ lastOp.side = "long" /\ lastOp.stop_loss < lastOp.entry_price
    /\ ret = 0

NoRefusal ==
    /\ Cardinality(positions) < MAX_POSITIONS
    /\ ~daily_loss_limit_hit

Distance(a, b) == IF a >= b THEN a - b ELSE b - a

\* max(1, min(floor(portfolio_value x position_size_percent / |entry - stop|),
\*            floor(max_position_size / entry)))
SizeFormula(entry_price, stop_loss) ==
    LET by_risk == (portfolio_value * POSITION_SIZE_PERCENT)
                       \div (100 * Distance(entry_price, stop_loss))
        by_value == MAX_POSITION_SIZE \div entry_price
        m == IF by_risk <= by_value THEN by_risk ELSE by_value
    IN  IF m >= 1 THEN m ELSE 1

\* C12 as claimed: for any side, entry > 0 and stop # entry on either side,
\* with no refusal active, the result is the formula and is positive.
C12_SizeFormulaEitherSide ==
    (/\ Sized
     /\ NoRefusal
     /\ lastOp.entry_price > 0
     /\ lastOp.stop_loss # lastOp.entry_price)
    => (ret = SizeFormula(lastOp.entry_price, lastOp.stop_loss) /\ ret > 0)

\* the stop is on the protective side of the entry
StopProtects ==
    \/ lastOp.side = "long" /\ lastOp.stop_loss < lastOp.entry_price
    \/ lastOp.side = "short" /\ lastOp.stop_loss > lastOp.entry_price

\* C12, amended: with no refusal active and entry > 0, a long with
\* stop < entry or a short with stop > entry gets the formula, a positive
\* integer; a stop on the other side of the entry gets 0.
C12_SizeFormulaProtectiveSide ==
    (/\ Sized
     /\ NoRefusal
     /\ lastOp.entry_price > 0)
    => /\ StopProtects
           => (ret = SizeFormula(lastOp.entry_price, lastOp.stop_loss) /\ ret > 0)
       /\ ~StopProtects => ret = 0

\* the scenario of the specification: entry 100, stop 95, 2 percent of 100000
C12_Witness ==
    /\ Sized
    /\ NoRefusal
    /\ portfolio_value = 100000
    /\ lastOp.side = "long" /\ lastOp.entry_price = 100 /\ lastOp.stop_loss = 95
    /\ ret = 400

\* str.lower(), to find the configured lot size of a symbol
Lower(s) ==
    IF s = "NIFTY" THEN "nifty"
    ELSE IF s = "BANKNIFTY" THEN "banknifty"
    ELSE s

\* C13: for a symbol with a configured lot size every non-zero quantity
\* calculate_position_size returns is a multiple of that lot size.
C13_LotSizeMultiple ==
    (/\ Sized
     /\ Lower(lastOp.symbol) \in DOMAIN LOT_SIZE
     /\ ret # 0)
    => ret % LOT_SIZE[Lower(lastOp.symbol)] = 0

\* C14: an exit signal whose type does not match the side of the open
\* Position is refused: process_signal returns false, no broker order is
\* placed, and the Position stays open and unchanged.
C14_ExitSideMismatchRefused ==
    [][ \A sig \in Signals :
          (/\ ProcessSignalStep(sig)
           /\ sig.signal_type \in ExitSignalTypes
           /\ \E p \in positions :
                 /\ p.symbol = sig.symbol
                 /\ p.side # (IF sig.signal_type = "EXIT_LONG" THEN "long" ELSE "short"))
          => /\ ret' = FALSE
             /\ pc' = "idle"
             /\ UNCHANGED <<rmVars, pending_orders, completed_orders, broker_book>>
      ]_vars

\* a valid EXIT_SHORT in live mode was refused against a long Position
C14_Witness ==
    /\ lastOp.op = "process_signal"
    /\ pc = "idle"
    /\ trading_mode = "live"
    /\ cur_sig.signal_type = "EXIT_SHORT"
    /\ cur_sig.confidence >= 50
    /\ \E p \in positions : p.symbol = cur_sig.symbol /\ p.side = "long"
    /\ ret = FALSE

\* a step of _place_order: one broker place_order call
PlaceOrderCall == pc \in {"entry", "exit"} /\ (attempt' # attempt \/ pc' # pc)

\* C15: _place_order makes at most max_order_retry broker calls and none
\* after the first success; a success adds exactly one Order, OPEN and with
\* the id the broker assigned, to the pending set; when every attempt has
\* failed no Order is added to the pending or completed set and the result
\* is false.
C15_BoundedRetry ==
    [][ PlaceOrderCall =>
          /\ attempt + 1 <= MAX_ORDER_RETRY
          /\ lastOp'.op = "place_order"
          /\ lastOp'.ok =>
                /\ pc' = "idle"
                /\ completed_orders' = completed_orders
                /\ \E o \in pending_orders' :
                      /\ o \notin pending_orders
                      /\ pending_orders' = pending_orders \cup {o}
                      /\ o.status = "OPEN"
                      /\ o.order_id \in DOMAIN broker_book' \ DOMAIN broker_book
                      /\ o.order_id \notin OrderIds(pending_orders)
          /\ ~lastOp'.ok =>
                /\ pending_orders' = pending_orders
                /\ completed_orders' = completed_orders
                /\ broker_book' = broker_book
                /\ IF attempt + 1 = MAX_ORDER_RETRY
                   THEN pc' = "idle" /\ ret' = FALSE
                   ELSE pc' = pc /\ attempt' = attempt + 1
      ]_vars

\* the last attempt of an exit order is about to be made after
\* max_order_retry - 1 failed ones
C15_Witness ==
    /\ pc = "exit"
    /\ attempt = MAX_ORDER_RETRY - 1
    /\ lastOp.op = "place_order"
    /\ ~lastOp.ok

C18_StopCancelsPending ==
    lastOp.op = "stop" =>
        /\ lastOp.cancel_requests = OrderIds(pending_orders)
        /\ \A o \in pending_orders : o.status # "OPEN"

\* order id is in the completed set with the given statuses
CompletedAs(id, statuses) ==
    /\ id \notin OrderIds(pending_orders)
    /\ \E c \in completed_orders : c.order_id = id /\ c.status \in statuses

\* C17: while the monitor runs, every pending order that the broker keeps
\* reporting OPEN past order_timeout is eventually marked CANCELLED and moved
\* to the completed set (unless the exchange fills or rejects it first).
C17_TimeoutCancels ==
    \A id \in 1..MaxMonOrders :
        (id \in OrderIds(pending_orders) /\ broker_book[id] = "OPEN")
        ~> \/ CompletedAs(id, {"CANCELLED"})
           \/ (id \in DOMAIN broker_book /\ broker_book[id] \in {"COMPLETE", "REJECTED"})
           \/ ~is_monitoring

\* an order that timed out is in the completed set as CANCELLED although
\* the broker refused the cancel and still has it OPEN
C17_Witness ==
    \E c \in completed_orders :
        /\ c.status = "CANCELLED"
        /\ broker_book[c.order_id] = "OPEN"
        /\ is_monitoring

\* C19: an exception inside an iteration of the monitor loop does not end
\* the loop: while is_monitoring is true, every order pending when a check
\* failed is still reconciled, in that iteration or a later one.
C19_MonitorSurvivesErrors ==
    \A id \in 1..MaxMonOrders :
        (scan_failed # {} /\ id \in OrderIds(pending_orders))
        ~> \/ CompletedAs(id, {"FILLED", "CANCELLED", "REJECTED"})
           \/ ~is_monitoring

\* in one iteration the check of one order got no order book and the check
\* of the next order reconciled it to a terminal status
C19_Witness ==
    /\ mon_pc = "scan"
    /\ is_monitoring
    /\ \E f \in scan_failed, o \in pending_orders :
          /\ f < o.order_id
          /\ o.order_id \in orders_to_remove
          /\ o.status \in {"FILLED", "CANCELLED", "REJECTED"}

\* ------------------------------------------------------------------------
\* process_signal as a whole (Spec)
\* ------------------------------------------------------------------------
\* C20: process_signal never raises to its caller; every call returns a
\* boolean, and it is false for an invalid or low-confidence signal, for an
\* entry whose computed quantity is 0, for an entry on a symbol without a
\* registered strategy, and when the broker placement has failed.
C20_NeverRaises ==
    [][ /\ \A sig \in Signals :
              ProcessSignalStep(sig) =>
                 /\ pc' = "idle" => ret' \in BOOLEAN
                 /\ ~validate_signal(sig) => (pc' = "idle" /\ ret' = FALSE)
                 /\ (/\ validate_signal(sig)
                     /\ sig.signal_type \in EntrySignalTypes
                     /\ calculate_position_size(RM, sig.symbol, sig.price,
                                                EntryStop(sig), EntrySide(sig)) = 0)
                    => (pc' = "idle" /\ ret' = FALSE)
                 /\ (/\ validate_signal(sig)
                     /\ sig.signal_type \in EntrySignalTypes
                     /\ sig.symbol \notin DOMAIN current_position
                     /\ trading_mode # "live")
                    => (pc' = "idle" /\ ret' = FALSE)
        /\ PlaceOrderCall =>
              /\ pc' = "idle" => ret' \in BOOLEAN
              /\ (pc' = "idle" /\ ~lastOp'.ok) => ret' = FALSE
              /\ (pc' = "idle" /\ cur_sig.symbol \notin DOMAIN current_position)
                    => ret' = FALSE
      ]_vars

\* a paper-mode entry on a symbol without a registered strategy opened its
\* Position, hit the KeyError and returned false
C20_Witness ==
    /\ lastOp.op = "process_signal"
    /\ pc = "idle"
    /\ trading_mode = "paper"
    /\ cur_sig.signal_type = "BUY"
    /\ cur_sig.symbol \notin DOMAIN current_position
    /\ Has(positions, cur_sig.symbol)
    /\ ret = FALSE

\* ------------------------------------------------------------------------
\* Properties of the historical data store
\* ------------------------------------------------------------------------
StrictlyAscending(df) ==
    \A i \in 1..(Len(df) - 1) : df[i].timestamp < df[i + 1].timestamp

\* the last row of df with timestamp t
LastAt(df, t) ==
    df[CHOOSE i \in 1..Len(df) :
          /\ df[i].timestamp = t
          /\ \A j \in (i + 1)..Len(df) : df[j].timestamp # t]

\* C21: merging B into a merge of A and B changes nothing, and every merge
\* result is sorted ascending by timestamp, has no timestamp twice, and
\* holds for every timestamp of B the candle of B.
C21_MergeIdempotent ==
    lastOp.op = "_merge_and_deduplicate" =>
        LET A == lastOp.existing_df
            B == lastOp.new_df
        IN  /\ merge_and_deduplicate(ret, B) = ret
            /\ StrictlyAscending(ret)
            /\ Timestamps(ret) = Timestamps(A) \cup Timestamps(B)
            /\ \A t \in Timestamps(B) : LastAt(ret, t) = LastAt(B, t)

\* a merge of an unsorted A with a B that has another candle for one of
\* A's timestamps
C21_Witness ==
    /\ lastOp.op = "_merge_and_deduplicate"
    /\ ~StrictlyAscending(lastOp.existing_df)
    /\ \E i \in 1..Len(lastOp.existing_df), j \in 1..Len(lastOp.new_df) :
          /\ lastOp.existing_df[i].timestamp = lastOp.new_df[j].timestamp
          /\ lastOp.existing_df[i] # lastOp.new_df[j]
    /\ Len(ret) = 2

\* C22: a load that runs while a save of the same file is in progress
\* returns the complete series the file held before the save, or the
\* complete series being saved.
C22_SaveAtomic ==
    (/\ lastOp.op = "load_historical_data"
     /\ writer.pc = "writing"
     /\ writer.interval = lastOp.interval)
    => ret \in {writer.old, <<writer.df>>}

\* C23: whenever late-start detection reports needs_backfill, the window
\* it returns has start_time <= end_time <= now, at every time of day.
C23_WindowElapsed ==
    (lastOp.op = "_detect_late_start" /\ ret.needs_backfill)
    => (ret.start_time <= ret.end_time /\ ret.end_time <= clock)

\* ------------------------------------------------------------------------
\* Properties of resampling
\* ------------------------------------------------------------------------
\* C25: for every supported period, each timestamp resample_data produces
\* is 09:15 plus a whole number of periods, and resampling the same input
\* again gives the same output.
C25_BucketsAnchoredAtOpen ==
    lastOp.op = "resample_data" =>
        /\ \A i \in 1..Len(ret) :
              (TimeOf(ret[i].timestamp) - MarketOpen) % Freq(lastOp.target_interval) = 0
        /\ resample_data(lastOp.df, lastOp.target_interval) = ret

\* rows of df that resample_data may use and that lie in [start, start + period)
InBucket(df, start, tf) ==
    SelectSeq(df, LAMBDA r : /\ TimeOf(r.timestamp) <= MarketClose
                             /\ start <= r.timestamp
                             /\ r.timestamp < start + Freq(tf))

\* C26: every candle resample_data produces aggregates exactly the input
\* rows of its left-closed bucket whose time of day is not after 15:30
\* (open of the first, highest high, lowest low, close of the last, summed
\* volume), every such input row is in the bucket of one produced candle,
\* the candle has low <= open, close <= high, and an input with no row at
\* or before 15:30 gives an empty series.
C26_BucketAggregation ==
    lastOp.op = "resample_data" =>
        LET df == lastOp.df
            tf == lastOp.target_interval
        IN  /\ \A i \in 1..Len(ret) :
                  LET rows == InBucket(df, ret[i].timestamp, tf)
                  IN  /\ rows # <<>>
                      /\ ret[i].open = rows[1].open
                      /\ ret[i].close = rows[Len(rows)].close
                      /\ \A k \in 1..Len(rows) :
                            ret[i].high >= rows[k].high /\ ret[i].low <= rows[k].low
                      /\ \E k \in 1..Len(rows) : ret[i].high = rows[k].high
                      /\ \E k \in 1..Len(rows) : ret[i].low = rows[k].low
                      /\ ret[i].volume = SumVolume(rows)
                      /\ ValidBar(ret[i])
            /\ \A i \in 1..(Len(ret) - 1) :
                  ret[i].timestamp + Freq(tf) <= ret[i + 1].timestamp
            /\ \A k \in 1..Len(df) :
                  TimeOf(df[k].timestamp) <= MarketClose =>
                      \E i \in 1..Len(ret) :
                          /\ ret[i].timestamp <= df[k].timestamp
                          /\ df[k].timestamp < ret[i].timestamp + Freq(tf)
            /\ (\A k \in 1..Len(df) : TimeOf(df[k].timestamp) > MarketClose)
                  => ret = <<>>

\* a candle made of two different rows, with a row after 15:30 left out
C26_Witness ==
    /\ lastOp.op = "resample_data"
    /\ \E k \in 1..Len(lastOp.df) : TimeOf(lastOp.df[k].timestamp) > MarketClose
    /\ Len(ret) = 1
    /\ LET rows == InBucket(lastOp.df, ret[1].timestamp, lastOp.target_interval)
       IN  Len(rows) = 2 /\ rows[1] # rows[2] /\ rows[1].timestamp < rows[2].timestamp
    /\ ret[1].open # ret[1].close

\* C24: no update or backfill call removes a file or removes from a file a
\* candle timestamp the file held before the call, the files of the higher
\* timeframes included.
C24_AppendOnly ==
    [][ \A iv \in DOMAIN files :
            /\ iv \in DOMAIN files'
            /\ Timestamps(files[iv].rows) \subseteq Timestamps(files'[iv].rows) ]_vars

\* ------------------------------------------------------------------------
\* Properties of the swing level detector
\* ------------------------------------------------------------------------
InList(list, a) == \E i \in 1..Len(list) : list[i] = a

\* the call found exactly two candidates, of different prices
TwoCandidates ==
    /\ lastOp.op \in {"get_buy_level", "get_sell_level"}
    /\ Len(lastOp.candidates) = 2
    /\ lastOp.candidates[1].price # lastOp.candidates[2].price

\* the candidate nearer to the last close, and the farther one
Nearer ==
    LET a == lastOp.candidates[1]
        b == lastOp.candidates[2]
        c == lastOp.df[Len(lastOp.df)]
    IN  IF Distance(a.price, c) < Distance(b.price, c) THEN a ELSE b
Farther ==
    IF Nearer = lastOp.candidates[1] THEN lastOp.candidates[2]
    ELSE lastOp.candidates[1]

C29_LevelsRecomputed ==
    (/\ lastOp.op = "update_swing_levels"
     /\ lastOp.df # <<>>
     /\ lastOp.df[1] # <<>>)
    => LET stored == swing_levels[lastOp.symbol]
           buy_levels == get_buy_level(lastOp.df[1])
           sell_levels == get_sell_level(lastOp.df[1])
       IN  /\ stored.swing_high =
                 IF buy_levels = <<>> THEN <<>> ELSE <<buy_levels[1].price>>
           /\ stored.swing_low =
                 IF sell_levels = <<>> THEN <<>> ELSE <<sell_levels[1].price>>

\* C30: when the snapshot file is older than the freshness threshold (or
\* missing), place_order sends no order on the price it read from the feed.
C30_StalePriceNotUsed ==
    (lastOp.op = "place_order" /\ ~lastOp.fresh)
    => (~lastOp.sent /\ ret = FALSE)

\* realized P&L of the round trip recorded in lastOp
RealizedPnl ==
    IF lastOp.opened.side = "long"
    THEN (lastOp.exit_price - lastOp.opened.entry_price) * lastOp.opened.quantity
    ELSE (lastOp.opened.entry_price - lastOp.exit_price) * lastOp.opened.quantity

\* C31: after open_position directly followed by close_position, portfolio_value
\* is its value before the open plus the realized P&L, and daily_pnl has grown
\* by that same P&L.
C31_RoundTripPnl ==
    (lastOp.op = "close_position" /\ ret = TRUE)
    => /\ portfolio_value = lastOp.opened.portfolio_value + RealizedPnl
       /\ daily_pnl = lastOp.opened.daily_pnl + RealizedPnl

\* the side of RiskManager's open Position for a symbol, "none" without one
HeldSide(s) == IF Has(positions, s) THEN Get(positions, s).side ELSE "none"

\* C32: between process_signal calls, the current_position of every registered
\* strategy is the side of RiskManager's open Position for its symbol, and is
\* None exactly when RiskManager holds none.
C32_StrategyMirrorsPositions ==
    pc = "idle" => \A s \in DOMAIN current_position : current_position[s] = HeldSide(s)

\* C33: when process_signal has returned false for an entry signal (BUY/SELL),
\* the call has opened no Position for the signal's symbol and has registered
\* no broker order for it, also when the symbol has no registered strategy.
C33_FailedEntryLeavesNothing ==
    (/\ pc = "idle"
     /\ lastOp.op \in {"process_signal", "place_order"}
     /\ cur_sig.signal_type \in EntrySignalTypes
     /\ ret = FALSE)
    => /\ ~sig_pre.had_position => ~Has(positions, cur_sig.symbol)
       /\ lastOp.op = "place_order" => ~lastOp.ok

\* C34: the step in which _execute_entry_signal rolls back an entry whose
\* order placement failed appends no trade record and leaves daily_pnl as it
\* was, so that the trade count and the win rate of get_risk_metrics are
\* those from before the signal.
C34_RollbackKeepsStatistics ==
    [][(pc = "entry" /\ pc' = "idle" /\ ret' = FALSE)
       => (trade_history' = trade_history /\ daily_pnl' = daily_pnl)]_vars

\* C35: after any sequence of process_signal, update_positions and
\* close_position calls, RiskManager holds at most max_positions open
\* Positions.
C35_AtMostMaxPositions == Cardinality(positions) <= MAX_POSITIONS

\* with max_positions Positions open, an entry on a further symbol was refused
C35_Witness ==
    /\ Cardinality(positions) = MAX_POSITIONS
    /\ lastOp.op = "process_signal"
    /\ pc = "idle"
    /\ cur_sig.signal_type \in EntrySignalTypes
    /\ ~Has(positions, cur_sig.symbol)
    /\ ~daily_loss_limit_hit
    /\ ret = FALSE

\* C36: an order is marked CANCELLED by the monitor only when the broker has
\* cancelled it: on the timeout path that is when cancel_order succeeded; an
\* order whose cancel failed keeps status OPEN in the pending set.
C36_CancelledOnlyIfBrokerCancelled ==
    \A o \in pending_orders \cup completed_orders :
        o.status = "CANCELLED" => broker_book[o.order_id] = "CANCELLED"

\* C37: whenever the monitor thread sleeps between two polls, every order in
\* the pending set has status OPEN and every order in the completed set has
\* a terminal status, whatever the interleaving with _place_order.
C37_SetsConsistentAtSleep ==
    mon_pc = "sleep" =>
        /\ \A o \in pending_orders : o.status = "OPEN"
        /\ \A o \in completed_orders : o.status \in {"FILLED", "CANCELLED", "REJECTED"}

\* the side and the stop of the strategy's position in a symbol
Stance(pos, s) == IF s \in DOMAIN pos THEN pos[s].position ELSE 0

\* C38: update_trailing_stop only tightens: a long position's stop_loss never
\* decreases and a short position's never increases, and a call with no open
\* position or no swing level for the symbol changes nothing.
C38_TrailingStopTightens ==
    [][\A s \in StrategySymbols :
          (lastOp'.op = "update_trailing_stop" /\ lastOp'.symbol = s) =>
             /\ DOMAIN strategy_positions' = DOMAIN strategy_positions
             /\ Stance(strategy_positions', s) = Stance(strategy_positions, s)
             /\ Stance(strategy_positions, s) = 1 =>
                   strategy_positions'[s].stop_loss[1] >= strategy_positions[s].stop_loss[1]
             /\ Stance(strategy_positions, s) = -1 =>
                   strategy_positions'[s].stop_loss[1] <= strategy_positions[s].stop_loss[1]
             /\ (\/ Stance(strategy_positions, s) = 0
                 \/ s \notin DOMAIN swing_levels
                 \/ (Stance(strategy_positions, s) = 1
                     /\ swing_levels[s].sell_level = <<>>)
                 \/ (Stance(strategy_positions, s) = -1
                     /\ swing_levels[s].buy_level = <<>>))
                => strategy_positions' = strategy_positions
      ]_vars

\* a long position's stop was raised to a higher sell level
C38_Witness ==
    /\ lastOp.op = "update_trailing_stop"
    /\ Stance(strategy_positions, lastOp.symbol) = 1
    /\ lastOp.stop_loss # <<>>
    /\ strategy_positions[lastOp.symbol].stop_loss[1] > lastOp.stop_loss[1]
    /\ strategy_positions[lastOp.symbol].stop_loss = swing_levels[lastOp.symbol].sell_level

\* C39: every level get_buy_level returns is strictly above the last close
\* and has the price of the last swing-high candidate in time, the levels
\* left by the virgin filter never rising over time; symmetrically every
\* level get_sell_level returns is strictly below the last close and has the
\* price of the last swing-low candidate.
C39_ReturnsLatestCandidate ==
    lastOp.op \in {"get_buy_level", "get_sell_level"} =>
        LET c == lastOp.df[Len(lastOp.df)]
            last == lastOp.candidates[Len(lastOp.candidates)]
            buy == lastOp.op = "get_buy_level"
        IN  /\ \A k \in 1..Len(ret) :
                  /\ IF buy THEN ret[k].price > c ELSE ret[k].price < c
                  /\ ret[k].price = last.price
            /\ \A i \in 1..(Len(lastOp.virgin) - 1) :
                  IF buy THEN lastOp.virgin[i].price >= lastOp.virgin[i + 1].price
                  ELSE lastOp.virgin[i].price <= lastOp.virgin[i + 1].price

\* two swing highs, the earlier one higher: both pass the virgin filter and
\* the later, lower one is returned
C39_Witness ==
    /\ lastOp.op = "get_buy_level"
    /\ Len(lastOp.candidates) = 2
    /\ lastOp.candidates[1].price > lastOp.candidates[2].price
    /\ Len(lastOp.virgin) = 2
    /\ ret = <<lastOp.candidates[2]>>


\* C40: once write_to_file has put a non-empty tick list into the snapshot,
\* get_live_price() returns the last_traded_price of the first written tick,
\* and get_live_price(symbol) that of the first written tick of that symbol
WrittenTicks == feed_file[1].fields.data.items

C40_SnapshotRoundTrip ==
    (lastOp.op = "get_live_price" /\ feed_file # <<>>) =>
        IF lastOp.symbol = <<>>
        THEN ret = <<WrittenTicks[1].fields.last_traded_price>>
        ELSE \A i \in 1..Len(WrittenTicks) :
                ( /\ <<WrittenTicks[i].fields.trading_symbol>> = lastOp.symbol
                  /\ \A j \in 1..(i - 1) :
                        WrittenTicks[j].fields.trading_symbol
                            # WrittenTicks[i].fields.trading_symbol )
                => ret = <<WrittenTicks[i].fields.last_traded_price>>

====
